---- MODULE Spec2Model ----
(***************************************************************************)
(* Model of the Links Notation codec of konard/follow (src/lino.lib.mjs):  *)
(* LinksNotationManager with its pure conversions (escapeReference,        *)
(* format, jsonToLino, linoToJson, parse, parseNumericIds,                 *)
(* parseStringValues) and its file-backed save/load operations, and of the *)
(* scripts that use it: the writers of the cache files, the auto-follow    *)
(* sequence (src/auto-follow.mjs) and VKChatLister.retryOperation          *)
(* (src/telegram-join-group.mjs).                                          *)
(*                                                                         *)
(* Text is a sequence of one-character strings, so that formatting and     *)
(* parsing are computed character by character.  A JavaScript value is a   *)
(* record [k, s, n, b, xs, keys, link]: k is its kind and the field of     *)
(* that kind holds its payload (s the text of a string, n the number,      *)
(* b the boolean, xs the elements of an array or the values of an object,  *)
(* keys the keys of an object, link a Link object of the parser).          *)
(***************************************************************************)
EXTENDS Integers, Sequences, FiniteSets, TLC

VARIABLES
  dirExists, \* whether the storage directory exists
  files,     \* the files of the storage directory: name -> [exists, content]
  saved,     \* per file name, the most recent save: [op, value]
  last,      \* the most recent call: [op, name, arg, ret]
  exitCode,  \* the status process.exit was called with, NotExited before
  writers,   \* per writer of the cache files, its position in a save
  follower,  \* the auto-follow process: its position in run()
  retry,     \* one call of retryOperation: its position and its attempts
  linkFollower, \* one call of followLinks: its position and its results
  sender,    \* the end of sendLinkToChatIds: the cleanup and the exit
  telegram   \* the Telegram client, the .env file and the calls of connect

\* the state of the scripts, which the codec leaves alone
\* the state of the Telegram and VK scripts
scriptVars == <<linkFollower, sender, telegram>>

procVars == <<exitCode, writers, follower, retry, scriptVars>>

vars ==
  <<dirExists, files, saved, last, exitCode, writers, follower, retry,
    linkFollower, sender, telegram>>

(***************************************************************************)
(* Bounds of the model.                                                    *)
(***************************************************************************)
MaxStr == 3
MaxLen == 2
MaxNodes == 3
MaxLinkNodes == 4
MaxChunks == 3

(***************************************************************************)
(* Characters and JavaScript values.                                       *)
(***************************************************************************)
SQ == "'"
DQ == "\""
LP == "("
RP == ")"
SP == " "
NL == "\n"

Digits == {"0", "1", "2", "3", "4", "5", "6", "7", "8", "9"}

DigitVal(c) ==
  CASE c = "0" -> 0 [] c = "1" -> 1 [] c = "2" -> 2 [] c = "3" -> 3
    [] c = "4" -> 4 [] c = "5" -> 5 [] c = "6" -> 6 [] c = "7" -> 7
    [] c = "8" -> 8 [] c = "9" -> 9

DigitChar(d) ==
  CASE d = 0 -> "0" [] d = 1 -> "1" [] d = 2 -> "2" [] d = 3 -> "3"
    [] d = 4 -> "4" [] d = 5 -> "5" [] d = 6 -> "6" [] d = 7 -> "7"
    [] d = 8 -> "8" [] d = 9 -> "9"

\* /\s/ restricted to the whitespace characters the model's texts contain
Whitespace == {SP, NL}

\* a Link object of the parser: id is <<>> for null and <<text>> otherwise
NoId == <<>>

Reference(s) == [id |-> <<s>>, values |-> <<>>]

Link(values) == [id |-> NoId, values |-> values]

JUndefined ==
  [k |-> "undefined", s |-> <<>>, n |-> <<0, 0>>, b |-> FALSE, xs |-> <<>>,
   keys |-> <<>>, link |-> Link(<<>>)]
JNull == [JUndefined EXCEPT !.k = "null"]
JBool(b) == [JUndefined EXCEPT !.k = "bool", !.b = b]
\* the number m / 10^e, normalised: e = 0 or m not divisible by 10
JNum(m, e) == [JUndefined EXCEPT !.k = "num", !.n = <<m, e>>]
JStr(s) == [JUndefined EXCEPT !.k = "str", !.s = s]
JArr(xs) == [JUndefined EXCEPT !.k = "arr", !.xs = xs]
\* an object: keys[i] maps to xs[i], in enumeration order, keys distinct
JObj(keys, xs) == [JUndefined EXCEPT !.k = "obj", !.keys = keys, !.xs = xs]
\* a Link object of the parser handed on as a value
JLink(l) == [JUndefined EXCEPT !.k = "link", !.link = l]
\* a thrown exception, s its name
JThrow(e) == [JUndefined EXCEPT !.k = "throw", !.s = e]

SeqsUpTo(S, n) == UNION {[1..m -> S] : m \in 0..n}

RECURSIVE Pow10(_)
Pow10(e) == IF e = 0 THEN 1 ELSE 10 * Pow10(e - 1)

RECURSIVE NatDigits(_)
NatDigits(n) ==
  IF n < 10 THEN <<DigitChar(n)>>
  ELSE NatDigits(n \div 10) \o <<DigitChar(n % 10)>>

RECURSIVE PadDigits(_, _)
PadDigits(n, width) ==
  IF width = 0 THEN <<>>
  ELSE PadDigits(n \div 10, width - 1) \o <<DigitChar(n % 10)>>

\* Number.prototype.toString for the non-negative decimals of the model
NumberToString(m, e) ==
  IF e = 0 THEN NatDigits(m)
  ELSE NatDigits(m \div Pow10(e)) \o <<".">> \o PadDigits(m % Pow10(e), e)

\* String(value)
String(value) ==
  CASE value.k = "num" -> NumberToString(value.n[1], value.n[2])
    [] value.k = "bool" ->
         IF value.b THEN <<"t", "r", "u", "e">> ELSE <<"f", "a", "l", "s", "e">>
    [] value.k = "null" -> <<"n", "u", "l", "l">>
    [] value.k = "undefined" ->
         <<"u", "n", "d", "e", "f", "i", "n", "e", "d">>
    [] value.k = "str" -> value.s

(***************************************************************************)
(* escapeReference (src/lino.lib.mjs:155-197)                              *)
(***************************************************************************)
Includes(str, c) == \E i \in 1..Len(str) : str[i] = c

CountChar(str, c) == Cardinality({i \in 1..Len(str) : str[i] = c})

\* str.replace(/q/g, 'qq')
RECURSIVE DoubleChar(_, _)
DoubleChar(str, q) ==
  IF str = <<>> THEN <<>>
  ELSE (IF Head(str) = q THEN <<q, q>> ELSE <<Head(str)>>)
         \o DoubleChar(Tail(str), q)

\* /[\s()'"]/.test(str)
needsEscaping(str) ==
  \E i \in 1..Len(str) : str[i] \in Whitespace \cup {LP, RP, SQ, DQ}

\* escapeReference with the comparison of the two counts taken as <=
escapeReferenceTieDouble(value) ==
  IF value.k \in {"num", "bool"} THEN String(value)
  ELSE
    LET str == String(value) IN
    IF ~needsEscaping(str) THEN str
    ELSE IF Includes(str, SQ) /\ ~Includes(str, DQ)
      THEN <<DQ>> \o str \o <<DQ>>
    ELSE IF Includes(str, DQ) /\ ~Includes(str, SQ)
      THEN <<SQ>> \o str \o <<SQ>>
    ELSE IF Includes(str, SQ) /\ Includes(str, DQ)
      THEN IF CountChar(str, DQ) <= CountChar(str, SQ)
             THEN <<DQ>> \o DoubleChar(str, DQ) \o <<DQ>>
             ELSE <<SQ>> \o DoubleChar(str, SQ) \o <<SQ>>
    ELSE <<SQ>> \o str \o <<SQ>>

escapeReference(value) ==
  IF value.k \in {"num", "bool"} THEN String(value)
  ELSE
    LET str == String(value) IN
    IF ~needsEscaping(str) THEN str
    ELSE IF Includes(str, SQ) /\ ~Includes(str, DQ)
      THEN <<DQ>> \o str \o <<DQ>>
    ELSE IF Includes(str, DQ) /\ ~Includes(str, SQ)
      THEN <<SQ>> \o str \o <<SQ>>
    ELSE IF Includes(str, SQ) /\ Includes(str, DQ)
      THEN LET singleQuoteCount == CountChar(str, SQ)
               doubleQuoteCount == CountChar(str, DQ)
           IN IF doubleQuoteCount < singleQuoteCount
                THEN <<DQ>> \o DoubleChar(str, DQ) \o <<DQ>>
                ELSE <<SQ>> \o DoubleChar(str, SQ) \o <<SQ>>
    ELSE <<SQ>> \o str \o <<SQ>>

(***************************************************************************)
(* The Links Notation parser, LinoParser.parse of the package              *)
(* @linksplatform/protocols-lino.  It is imported by src/lino.lib.mjs:1    *)
(* and is not part of the repository; it is modelled from the notation the *)
(* specification describes: a Reference is a bare or quoted token (the     *)
(* quote character doubled inside a quoted token stands for itself), a     *)
(* Link is a parenthesised sequence of values, every top-level line is one *)
(* link, and a line that is not a single parenthesised link is wrapped as  *)
(* a link of its values.  Indented lines and the "id:" form are not        *)
(* modelled; the model's texts contain neither.                            *)
(* The parser's result is a sequence of Link objects [id, values].         *)
(***************************************************************************)

RECURSIVE ReadQuoted(_, _, _, _)
ReadQuoted(t, j, q, acc) ==
  IF j > Len(t) THEN [err |-> TRUE, id |-> <<>>, pos |-> j]
  ELSE IF t[j] = q
    THEN IF j + 1 <= Len(t) /\ t[j + 1] = q
           THEN ReadQuoted(t, j + 2, q, Append(acc, q))
           ELSE [err |-> acc = <<>>, id |-> acc, pos |-> j + 1]
  ELSE ReadQuoted(t, j + 1, q, Append(acc, t[j]))

RECURSIVE ReadBare(_, _, _)
ReadBare(t, j, acc) ==
  IF j > Len(t) \/ t[j] \in Whitespace \cup {LP, RP}
    THEN [err |-> FALSE, id |-> acc, pos |-> j]
    ELSE ReadBare(t, j + 1, Append(acc, t[j]))

ReadReference(t, i) ==
  IF t[i] \in {SQ, DQ} THEN ReadQuoted(t, i + 1, t[i], <<>>)
  ELSE ReadBare(t, i, <<>>)

ValuesFail == [err |-> TRUE, vals |-> <<>>, pos |-> 0]

\* the values from position i up to the closing parenthesis (inParen) or up
\* to the end of the top-level line
RECURSIVE ParseValues(_, _, _)
ParseValues(t, i, inParen) ==
  IF i > Len(t) THEN [err |-> inParen, vals |-> <<>>, pos |-> i]
  ELSE IF t[i] = SP THEN ParseValues(t, i + 1, inParen)
  ELSE IF t[i] = NL
    THEN IF inParen THEN ParseValues(t, i + 1, inParen)
         ELSE [err |-> FALSE, vals |-> <<>>, pos |-> i]
  ELSE IF t[i] = RP
    THEN IF inParen THEN [err |-> FALSE, vals |-> <<>>, pos |-> i + 1]
         ELSE ValuesFail
  ELSE IF t[i] = LP
    THEN LET inner == ParseValues(t, i + 1, TRUE) IN
         IF inner.err THEN ValuesFail
         ELSE LET rest == ParseValues(t, inner.pos, inParen) IN
              IF rest.err THEN ValuesFail
              ELSE [err |-> FALSE,
                    vals |-> <<Link(inner.vals)>> \o rest.vals,
                    pos |-> rest.pos]
  ELSE LET r == ReadReference(t, i) IN
       IF r.err THEN ValuesFail
       ELSE LET rest == ParseValues(t, r.pos, inParen) IN
            IF rest.err THEN ValuesFail
            ELSE [err |-> FALSE,
                  vals |-> <<Reference(r.id)>> \o rest.vals,
                  pos |-> rest.pos]

\* a line holding exactly one parenthesised link is that link
LineLink(vals) ==
  IF Len(vals) = 1 /\ vals[1].id = NoId THEN vals[1] ELSE Link(vals)

RECURSIVE ParseLines(_, _)
ParseLines(t, i) ==
  IF i > Len(t) THEN [err |-> FALSE, links |-> <<>>]
  ELSE IF t[i] = NL THEN ParseLines(t, i + 1)
  ELSE LET line == ParseValues(t, i, FALSE) IN
       IF line.err THEN [err |-> TRUE, links |-> <<>>]
       ELSE LET rest == ParseLines(t, line.pos) IN
            IF rest.err THEN [err |-> TRUE, links |-> <<>>]
            ELSE IF line.vals = <<>> THEN rest
            ELSE [err |-> FALSE,
                  links |-> <<LineLink(line.vals)>> \o rest.links]

LinoParserParse(text) == ParseLines(text, 1)

ParseError == JThrow(<<"P", "a", "r", "s", "e", "E", "r", "r", "o", "r">>)

(***************************************************************************)
(* JavaScript helpers used by the codec.                                   *)
(***************************************************************************)
\* !value for the values the codec tests
Falsy(value) ==
  \/ value.k \in {"null", "undefined"}
  \/ value.k = "str" /\ value.s = <<>>
  \/ value.k = "bool" /\ ~value.b
  \/ value.k = "num" /\ value.n[1] = 0

RECURSIVE TrimStart(_)
TrimStart(str) ==
  IF str # <<>> /\ Head(str) \in Whitespace THEN TrimStart(Tail(str)) ELSE str

RECURSIVE TrimEnd(_)
TrimEnd(str) ==
  IF str # <<>> /\ str[Len(str)] \in Whitespace
    THEN TrimEnd(SubSeq(str, 1, Len(str) - 1))
    ELSE str

Trim(str) == TrimEnd(TrimStart(str))

RECURSIVE DigitsValue(_)
DigitsValue(ds) ==
  IF ds = <<>> THEN 0
  ELSE 10 * DigitsValue(SubSeq(ds, 1, Len(ds) - 1)) + DigitVal(ds[Len(ds)])

RECURSIVE Normalise(_, _)
Normalise(m, e) ==
  IF e > 0 /\ m % 10 = 0 THEN Normalise(m \div 10, e - 1)
  ELSE [nan |-> FALSE, m |-> m, e |-> e]

NaN == [nan |-> TRUE, m |-> 0, e |-> 0]

\* Number(str) for the unsigned decimal literals the model's texts can spell
Number(str) ==
  LET s == Trim(str)
      dots == {i \in 1..Len(s) : s[i] = "."}
      ds == SelectSeq(s, LAMBDA c : c # ".")
  IN IF s = <<>> THEN [nan |-> FALSE, m |-> 0, e |-> 0]
     ELSE IF Cardinality(dots) > 1 \/ ds = <<>>
             \/ \E i \in 1..Len(ds) : ds[i] \notin Digits
       THEN NaN
     ELSE IF dots = {} THEN Normalise(DigitsValue(ds), 0)
     ELSE Normalise(DigitsValue(ds), Len(s) - (CHOOSE i \in dots : TRUE))

RECURSIVE DigitPrefix(_)
DigitPrefix(str) ==
  IF str # <<>> /\ Head(str) \in Digits
    THEN <<Head(str)>> \o DigitPrefix(Tail(str))
    ELSE <<>>

\* parseInt(str): the leading run of decimal digits after leading whitespace
parseInt(str) ==
  LET ds == DigitPrefix(TrimStart(str)) IN
  IF ds = <<>> THEN NaN ELSE [nan |-> FALSE, m |-> DigitsValue(ds), e |-> 0]

\* value.id || value, for a Link object of the parser
IdOrValue(value) ==
  IF value.id # NoId /\ value.id[1] # <<>> THEN JStr(value.id[1])
  ELSE JLink(value)

\* the runs of digits of str: str.match(/\d+/g)
RECURSIVE DigitRuns(_)
DigitRuns(str) ==
  IF str = <<>> THEN <<>>
  ELSE IF Head(str) \in Digits
    THEN LET run == DigitPrefix(str) IN
         <<run>> \o DigitRuns(SubSeq(str, Len(run) + 1, Len(str)))
  ELSE DigitRuns(Tail(str))

RECURSIVE Join(_, _)
Join(texts, sep) ==
  IF texts = <<>> THEN <<>>
  ELSE IF Len(texts) = 1 THEN texts[1]
  ELSE texts[1] \o sep \o Join(Tail(texts), sep)

(***************************************************************************)
(* parse, parseNumericIds, parseStringValues (src/lino.lib.mjs:15-106)     *)
(***************************************************************************)
\* value.id || value for the values of every parsed link, in order
RECURSIVE AllValues(_)
AllValues(links) ==
  IF links = <<>> THEN <<>>
  ELSE (IF Len(Head(links).values) > 0
          THEN [i \in 1..Len(Head(links).values) |->
                  IdOrValue(Head(links).values[i])]
          ELSE <<>>)
       \o AllValues(Tail(links))

parse(input) ==
  IF Falsy(input) THEN JArr(<<>>)
  ELSE
    LET parsed == LinoParserParse(input.s) IN
    IF parsed.err THEN ParseError
    ELSE IF Len(parsed.links) > 0
      THEN LET link == parsed.links[1] IN
           IF Len(link.values) > 0
             THEN JArr([i \in 1..Len(link.values) |-> IdOrValue(link.values[i])])
           ELSE IF link.id # NoId /\ link.id[1] # <<>>
             THEN JArr(<<JStr(link.id[1])>>)
           ELSE JArr(<<>>)
    ELSE JArr(<<>>)

\* the numbers pushed for the values of a link, in order
RECURSIVE NumericIdsOf(_)
NumericIdsOf(values) ==
  IF values = <<>> THEN <<>>
  ELSE LET value == Head(values)
           \* parseInt(value.id || value); the text of a Link object starts
           \* with no digit
           num == IF IdOrValue(value).k = "str"
                    THEN parseInt(IdOrValue(value).s)
                    ELSE NaN
       IN (IF ~num.nan THEN <<JNum(num.m, num.e)>> ELSE <<>>)
            \o NumericIdsOf(Tail(values))

parseNumericIds(input) ==
  IF Falsy(input) THEN JArr(<<>>)
  ELSE
    LET parsed == LinoParserParse(input.s) IN
    IF parsed.err THEN ParseError
    ELSE IF Len(parsed.links) > 0
      THEN LET link == parsed.links[1] IN
           IF Len(link.values) > 0 THEN JArr(NumericIdsOf(link.values))
           ELSE IF link.id # NoId /\ link.id[1] # <<>>
             THEN LET nums == DigitRuns(link.id[1]) IN
                  JArr([i \in 1..Len(nums) |-> JNum(DigitsValue(nums[i]), 0)])
           ELSE JArr(<<>>)
    ELSE JArr(<<>>)

RECURSIVE StringValuesOf(_)
StringValuesOf(values) ==
  IF values = <<>> THEN <<>>
  ELSE LET linkStr == IdOrValue(Head(values)) IN
       (IF linkStr.k = "str" THEN <<linkStr>> ELSE <<>>)
         \o StringValuesOf(Tail(values))

parseStringValues(input) ==
  IF Falsy(input) THEN JArr(<<>>)
  ELSE
    LET parsed == LinoParserParse(input.s) IN
    IF parsed.err THEN ParseError
    ELSE IF Len(parsed.links) > 0
      THEN LET link == parsed.links[1] IN
           IF Len(link.values) > 0 THEN JArr(StringValuesOf(link.values))
           ELSE IF link.id # NoId /\ link.id[1] # <<>>
             THEN JArr(<<JStr(link.id[1])>>)
           ELSE JArr(<<>>)
    ELSE JArr(<<>>)

(***************************************************************************)
(* format (src/lino.lib.mjs:111-116)                                       *)
(***************************************************************************)
\* format with no case for the empty list
formatNoEmptyCase(values) ==
  <<LP, NL>>
    \o Join([i \in 1..Len(values.xs) |-> <<SP, SP>> \o String(values.xs[i])],
            <<NL>>)
    \o <<NL, RP>>

format(values) ==
  IF Falsy(values) \/ Len(values.xs) = 0 THEN <<LP, RP>>
  ELSE
    LET formattedValues ==
          Join([i \in 1..Len(values.xs) |-> <<SP, SP>> \o String(values.xs[i])],
               <<NL>>)
    IN <<LP, NL>> \o formattedValues \o <<NL, RP>>

(***************************************************************************)
(* jsonToLino (src/lino.lib.mjs:221-267)                                   *)
(***************************************************************************)
NullText == <<"n", "u", "l", "l">>

RECURSIVE jsonToLino(_)
jsonToLino(json) ==
  IF json.k \in {"null", "undefined"} THEN NullText
  ELSE IF json.k \in {"num", "bool"} THEN String(json)
  ELSE IF json.k = "str" THEN escapeReference(json)
  ELSE IF json.k = "arr"
    THEN IF Len(json.xs) = 0 THEN <<LP, RP>>
         ELSE LET elements == [i \in 1..Len(json.xs) |-> jsonToLino(json.xs[i])]
              IN <<LP>> \o Join(elements, <<SP>>) \o <<RP>>
  ELSE
    \* Object.entries(json): the keys are kept in enumeration order
    LET entries == [i \in 1..Len(json.keys) |-> <<json.keys[i], json.xs[i]>>] IN
    IF Len(entries) = 0 THEN <<LP, RP>>
    ELSE LET pairs == [i \in 1..Len(entries) |->
                         LET escapedKey == escapeReference(JStr(entries[i][1]))
                             convertedValue == jsonToLino(entries[i][2])
                         IN <<LP>> \o escapedKey \o <<SP>> \o convertedValue
                              \o <<RP>>]
         IN <<LP>> \o Join(pairs, <<SP>>) \o <<RP>>

(***************************************************************************)
(* _parseReference, _convertParsedToJson, linoToJson                       *)
(* (src/lino.lib.mjs:281-385)                                              *)
(***************************************************************************)
\* String(ref) of a Link id: 'null' for the null id
IdText(id) == IF id = NoId THEN NullText ELSE id[1]

parseReference(ref) ==
  LET str == IdText(ref)
      num == Number(str)
  IN IF str = <<"t", "r", "u", "e">> THEN JBool(TRUE)
     ELSE IF str = <<"f", "a", "l", "s", "e">> THEN JBool(FALSE)
     ELSE IF str = NullText THEN JNull
     ELSE IF ~num.nan /\ Trim(str) # <<>> THEN JNum(num.m, num.e)
     ELSE JStr(str)

\* obj[key] = value: an existing key keeps its place.  The keys stored by
\* _convertParsedToJson never read as numbers, so none is an array index and
\* a new key goes last.
ObjSet(obj, key, value) ==
  IF \E i \in 1..Len(obj.keys) : obj.keys[i] = key
    THEN JObj(obj.keys,
              [i \in 1..Len(obj.keys) |->
                 IF obj.keys[i] = key THEN value ELSE obj.xs[i]])
    ELSE JObj(Append(obj.keys, key), Append(obj.xs, value))

\* element.values.every(child => ...)
allPairs(element) ==
  \A i \in 1..Len(element.values) :
    LET child == element.values[i] IN
    /\ Len(child.values) = 2
    /\ Len(child.values[1].values) = 0
    /\ parseReference(child.values[1].id).k # "num"

RECURSIVE convertParsedToJson(_)
RECURSIVE BuildObject(_, _)
\* the loop obj[key] = value over the children from the left
BuildObject(children, obj) ==
  IF children = <<>> THEN obj
  ELSE LET child == Head(children)
           key == String(parseReference(child.values[1].id))
           value == convertParsedToJson(child.values[2])
       IN BuildObject(Tail(children), ObjSet(obj, key, value))

\* _convertParsedToJson with the empty link read as the empty object
convertParsedToJsonEmptyObject(element) ==
  IF Len(element.values) = 0 /\ element.id = NoId THEN JObj(<<>>, <<>>)
  ELSE IF Len(element.values) = 0 THEN parseReference(element.id)
  ELSE IF allPairs(element)
    THEN BuildObject(element.values, JObj(<<>>, <<>>))
  ELSE JArr([i \in 1..Len(element.values) |->
               convertParsedToJson(element.values[i])])

convertParsedToJson(element) ==
  IF Len(element.values) = 0
    THEN IF element.id = NoId THEN JArr(<<>>)
         ELSE parseReference(element.id)
  ELSE IF allPairs(element)
    THEN BuildObject(element.values, JObj(<<>>, <<>>))
  ELSE JArr([i \in 1..Len(element.values) |->
               convertParsedToJson(element.values[i])])

IsPrimitive(value) == value.k \in {"str", "num", "bool", "null"}

\* linoToJson without the unwrapping of a single primitive
linoToJsonNoUnwrap(lino) ==
  IF Falsy(lino) \/ lino.k # "str" THEN JNull
  ELSE
    LET parsed == LinoParserParse(lino.s) IN
    IF parsed.err THEN ParseError
    ELSE IF Len(parsed.links) = 0 THEN JNull
    ELSE convertParsedToJson(parsed.links[1])

linoToJson(lino) ==
  IF Falsy(lino) \/ lino.k # "str" THEN JNull
  ELSE
    LET parsed == LinoParserParse(lino.s) IN
    IF parsed.err THEN ParseError
    ELSE IF Len(parsed.links) = 0 THEN JNull
    ELSE LET result == convertParsedToJson(parsed.links[1]) IN
         IF result.k = "arr" /\ Len(result.xs) = 1 /\ IsPrimitive(result.xs[1])
           THEN result.xs[1]
           ELSE result

\* deep equality of two values (objects compared as maps)
RECURSIVE DeepEquals(_, _)
DeepEquals(a, b) ==
  IF a.k # b.k THEN FALSE
  ELSE IF a.k = "arr"
    THEN /\ Len(a.xs) = Len(b.xs)
         /\ \A i \in 1..Len(a.xs) : DeepEquals(a.xs[i], b.xs[i])
  ELSE IF a.k = "obj"
    THEN /\ {a.keys[i] : i \in 1..Len(a.keys)} = {b.keys[j] : j \in 1..Len(b.keys)}
         /\ \A i \in 1..Len(a.keys) : \A j \in 1..Len(b.keys) :
              a.keys[i] = b.keys[j] => DeepEquals(a.xs[i], b.xs[j])
  ELSE a = b

(***************************************************************************)
(* Inputs of the operations.                                               *)
(***************************************************************************)
StrAlphabet == {"a", "1", SP, SQ, DQ, LP, RP}

Strings == SeqsUpTo(StrAlphabet, MaxStr)

Numbers == {JNum(0, 0), JNum(1, 0), JNum(12, 0), JNum(15, 1)}

EscapeInputs ==
  {JStr(s) : s \in Strings} \cup Numbers \cup {JBool(TRUE), JBool(FALSE)}

\* flat lists of primitives, as handed to format and saveAsLino
ListPrims ==
  {JNum(1, 0), JNum(12, 0), JStr(<<"a">>), JStr(<<"a", SP, "b">>),
   JStr(<<LP>>)}

ListInputs == {JArr(xs) : xs \in SeqsUpTo(ListPrims, MaxLen)}

\* notation texts: the concatenations of at most MaxChunks chunks with no
\* indented line
Chunks ==
  {<<LP>>, <<RP>>, <<SP>>, <<NL>>, <<"a">>, <<"1", "2">>, <<"1", "2", "a">>,
   <<"1", ".", "5">>, <<"t", "r", "u", "e">>, <<SQ, "a", SP, "b", SQ>>}

RECURSIVE Flatten(_)
Flatten(texts) ==
  IF texts = <<>> THEN <<>> ELSE Head(texts) \o Flatten(Tail(texts))

NoIndentedLine(t) == \A i \in 1..(Len(t) - 1) : ~(t[i] = NL /\ t[i + 1] = SP)

TextInputs ==
  {t \in {Flatten(cs) : cs \in SeqsUpTo(Chunks, MaxChunks)} : NoIndentedLine(t)}

\* the inputs of parse, parseNumericIds and parseStringValues: a text,
\* null or undefined
ParseInputs == {JStr(t) : t \in TextInputs} \cup {JNull, JUndefined}

\* JSON values of at most n nodes
JsonLeaves ==
  {JNull, JBool(TRUE), JNum(1, 0), JStr(<<"a">>), JStr(<<"a", SP, "b">>)}

JsonKeys == {<<"a">>, <<"1">>}

\* an array index: the canonical decimal text of a natural number
IsArrayIndex(key) ==
  /\ key # <<>>
  /\ \A i \in 1..Len(key) : key[i] \in Digits
  /\ NatDigits(DigitsValue(key)) = key

\* the order in which an object enumerates its own keys: array indices first
\* and ascending, then the other keys in insertion order
EnumerationOrder(keys) ==
  /\ \A i, j \in 1..Len(keys) : i # j => keys[i] # keys[j]
  /\ \A i, j \in 1..Len(keys) :
       i < j /\ IsArrayIndex(keys[j]) =>
         IsArrayIndex(keys[i]) /\ DigitsValue(keys[i]) < DigitsValue(keys[j])

KeySeqs(len) == {ks \in [1..len -> JsonKeys] : EnumerationOrder(ks)}

RECURSIVE Size(_)
RECURSIVE SumSizes(_)
SumSizes(xs) == IF xs = <<>> THEN 0 ELSE Size(Head(xs)) + SumSizes(Tail(xs))

Size(value) == 1 + SumSizes(value.xs)

RECURSIVE JsonValues(_)
RECURSIVE JsonSeqs(_)
JsonSeqs(n) ==
  {<<>>} \cup
    UNION {{<<x>> \o rest : rest \in JsonSeqs(n - Size(x))} : x \in JsonValues(n)}

JsonValues(n) ==
  IF n = 0 THEN {}
  ELSE JsonLeaves
         \cup {JArr(xs) : xs \in JsonSeqs(n - 1)}
         \cup UNION {{JObj(ks, xs) : ks \in KeySeqs(Len(xs))} :
                       xs \in JsonSeqs(n - 1)}

JsonInputs == JsonValues(MaxNodes)

\* Link objects of at most n nodes, as the parser hands them on
RefIds == {<<"a">>, <<"1">>, <<"t", "r", "u", "e">>}

RECURSIVE LinkSize(_)
RECURSIVE SumLinkSizes(_)
SumLinkSizes(ls) ==
  IF ls = <<>> THEN 0 ELSE LinkSize(Head(ls)) + SumLinkSizes(Tail(ls))

LinkSize(l) == 1 + SumLinkSizes(l.values)

RECURSIVE LinkTrees(_)
RECURSIVE LinkSeqs(_)
LinkSeqs(n) ==
  {<<>>} \cup
    UNION {{<<x>> \o rest : rest \in LinkSeqs(n - LinkSize(x))} : x \in LinkTrees(n)}

LinkTrees(n) ==
  IF n = 0 THEN {}
  ELSE {Reference(id) : id \in RefIds} \cup {Link(ls) : ls \in LinkSeqs(n - 1)}

LinkInputs == LinkTrees(MaxLinkNodes)

(***************************************************************************)
(* The state machine.                                                      *)
(***************************************************************************)
FileNames == {"vk-chats.lino"}

\* the characters of a file name
NameText(name) ==
  CASE name = "vk-chats.lino" ->
         <<"v", "k", "-", "c", "h", "a", "t", "s", ".", "l", "i", "n", "o">>
    [] name = "telegram-links.lino" ->
         <<"t", "e", "l", "e", "g", "r", "a", "m", "-", "l", "i", "n", "k", "s",
           ".", "l", "i", "n", "o">>

\* path.join(os.homedir(), '.follow'), the home directory written "~"
storageDir == <<"~", "/", ".", "f", "o", "l", "l", "o", "w">>

getFilePath(filename) == storageDir \o <<"/">> \o NameText(filename)

NoFile == [exists |-> FALSE, content |-> <<>>]

NotSaved == [op |-> "none", value |-> JUndefined]

NoCall == [op |-> "none", name |-> "", arg |-> JUndefined, ret |-> JUndefined]

Call(op, name, arg, ret) == [op |-> op, name |-> name, arg |-> arg, ret |-> ret]

\* process.exit has not been called
NotExited == [exited |-> FALSE, code |-> 0]

\* process.exit(code) has been called
Exited(code) == [exited |-> TRUE, code |-> code]

Writers == {"w1", "w2"}

\* a writer that is in no save
IdleWriter == [pc |-> "idle", op |-> "none", name |-> "", value |-> JUndefined]

\* run() has not been called
NoRun ==
  [pc |-> "none", later |-> FALSE, step |-> 0, iteration |-> 0,
   exitCode |-> JUndefined, started |-> <<>>, sentTo |-> <<>>,
   rejected |-> <<>>]

\* retryOperation has not been called
NoRetry ==
  [pc |-> "none", maxRetries |-> 0, attempt |-> 0, calls |-> <<>>,
   waits |-> <<>>, lastError |-> JUndefined, result |-> JUndefined]

\* followLinks has not been called
NoFollow ==
  [pc |-> "none", later |-> FALSE, skipRateLimit |-> FALSE, links |-> <<>>,
   i |-> 0, parsed |-> <<>>, outcomes |-> <<>>, stoppedAt |-> 0,
   joined |-> <<>>, alreadyMember |-> <<>>, requestSent |-> <<>>,
   failed |-> <<>>, invalid |-> <<>>, thrown |-> <<>>]

\* sendLinkToChatIds has not reached its final results
NoSend ==
  [pc |-> "none", deleteAllIncoming |-> FALSE, sentMessages |-> <<>>,
   survived |-> <<>>, deleted |-> <<>>, reportedSurvived |-> 0,
   reportedDeleted |-> 0, i |-> 0, outcomes |-> <<>>,
   successfullyCleanedChats |-> <<>>, vipRestrictedChats |-> <<>>,
   permissionDeniedChats |-> <<>>, plainErrors |-> <<>>, thrown |-> FALSE,
   status |-> NotExited]

\* no Telegram client has been constructed; there is no .env file
NoTelegram ==
  [pc |-> "none", later |-> FALSE, session |-> <<>>, credentials |-> FALSE,
   sessionAtEntry |-> <<>>, isNewSession |-> FALSE, envExists |-> FALSE,
   envSession |-> <<>>, envWrites |-> 0, saveCalls |-> 0, clientWrites |-> 0,
   connects |-> 0, processes |-> 0, history |-> <<>>]

\* the Telegram and VK scripts at rest
ScriptInit ==
  /\ linkFollower = NoFollow
  /\ sender = NoSend
  /\ telegram = NoTelegram

\* the scripts at rest
ProcInit ==
  /\ exitCode = NotExited
  /\ writers = [w \in Writers |-> IdleWriter]
  /\ follower = NoRun
  /\ retry = NoRetry
  /\ ScriptInit

Init ==
  /\ dirExists = FALSE
  /\ files = [n \in FileNames |-> NoFile]
  /\ saved = [n \in FileNames |-> NotSaved]
  /\ last = NoCall
  /\ ProcInit

(***************************************************************************)
(* The pure operations: one call of the codec on one input.                *)
(***************************************************************************)
EscapeReference ==
  \E v \in EscapeInputs :
    /\ last = NoCall
    /\ last' = Call("escapeReference", "", v, JStr(escapeReference(v)))
    /\ UNCHANGED <<dirExists, files, saved, procVars>>

Format ==
  \E values \in ListInputs \cup {JNull} :
    /\ last = NoCall
    /\ last' = Call("format", "", values, JStr(format(values)))
    /\ UNCHANGED <<dirExists, files, saved, procVars>>

Parse ==
  \E input \in ParseInputs :
    /\ last = NoCall
    /\ last' = Call("parse", "", input, parse(input))
    /\ UNCHANGED <<dirExists, files, saved, procVars>>

ParseNumericIds ==
  \E input \in ParseInputs :
    /\ last = NoCall
    /\ last' = Call("parseNumericIds", "", input, parseNumericIds(input))
    /\ UNCHANGED <<dirExists, files, saved, procVars>>

ParseStringValues ==
  \E input \in ParseInputs :
    /\ last = NoCall
    /\ last' = Call("parseStringValues", "", input, parseStringValues(input))
    /\ UNCHANGED <<dirExists, files, saved, procVars>>

JsonToLino ==
  \E json \in JsonInputs \cup {JUndefined} :
    /\ last = NoCall
    /\ last' = Call("jsonToLino", "", json, JStr(jsonToLino(json)))
    /\ UNCHANGED <<dirExists, files, saved, procVars>>

LinoToJson ==
  \E t \in TextInputs :
    /\ last = NoCall
    /\ last' = Call("linoToJson", "", JStr(t), linoToJson(JStr(t)))
    /\ UNCHANGED <<dirExists, files, saved, procVars>>

ConvertParsedToJson ==
  \E element \in LinkInputs :
    /\ last = NoCall
    /\ last' = Call("_convertParsedToJson", "", JLink(element),
                    convertParsedToJson(element))
    /\ UNCHANGED <<dirExists, files, saved, procVars>>

CodecNext ==
  \/ EscapeReference
  \/ Format
  \/ Parse
  \/ ParseNumericIds
  \/ ParseStringValues
  \/ JsonToLino
  \/ LinoToJson
  \/ ConvertParsedToJson

CodecSpec == Init /\ [][CodecNext]_vars

(***************************************************************************)
(* The file-backed operations (src/lino.lib.mjs:121-138, 393-434).         *)
(***************************************************************************)
\* fs.writeFileSync keeping what the file held and writing after it
WriteFileAppending(name, text) ==
  /\ dirExists' = TRUE
  /\ files' = [files EXCEPT ![name] =
                 [exists |-> TRUE, content |-> files[name].content \o text]]

\* ensureDir followed by fs.writeFileSync(filePath, text)
WriteFile(name, text) ==
  /\ dirExists' = TRUE
  /\ files' = [files EXCEPT ![name] = [exists |-> TRUE, content |-> text]]

SaveAsLino ==
  \E name \in FileNames, values \in ListInputs :
    /\ ~exitCode.exited
    /\ WriteFile(name, format(values))
    /\ saved' = [saved EXCEPT ![name] = [op |-> "saveAsLino", value |-> values]]
    /\ last' = Call("saveAsLino", name, values, JStr(getFilePath(name)))
    /\ UNCHANGED procVars

SaveJsonAsLino ==
  \E name \in FileNames, data \in JsonInputs :
    /\ ~exitCode.exited
    /\ WriteFile(name, jsonToLino(data))
    /\ saved' = [saved EXCEPT ![name] = [op |-> "saveJsonAsLino", value |-> data]]
    /\ last' = Call("saveJsonAsLino", name, data, JStr(getFilePath(name)))
    /\ UNCHANGED procVars

\* the record loadFromLino returns for a file of the given text; a parse
\* error leaves the function as the exception
LoadRecord(name, text) ==
    LET content == JStr(text) IN
    IF parse(content).k = "throw" THEN parse(content)
    ELSE JObj(<<<<"r", "a", "w">>, <<"p", "a", "r", "s", "e", "d">>,
                <<"n", "u", "m", "e", "r", "i", "c", "I", "d", "s">>,
                <<"s", "t", "r", "i", "n", "g", "V", "a", "l", "u", "e", "s">>,
                <<"f", "i", "l", "e">>>>,
              <<content, parse(content), parseNumericIds(content),
                parseStringValues(content), JStr(getFilePath(name))>>)

\* loadFromLino reading the absent file, as fs.readFileSync would
loadFromLinoReadsAbsent(name) ==
  IF ~files[name].exists THEN JThrow(<<"E", "N", "O", "E", "N", "T">>)
  ELSE LoadRecord(name, files[name].content)

\* loadFromLino taking a parse error for an absent file
loadFromLinoCatching(name) ==
  IF ~files[name].exists THEN JNull
  ELSE IF LoadRecord(name, files[name].content).k = "throw" THEN JNull
  ELSE LoadRecord(name, files[name].content)

loadFromLino(name) ==
  IF ~files[name].exists THEN JNull
  ELSE LoadRecord(name, files[name].content)

loadJsonFromLino(name) ==
  IF ~files[name].exists THEN JNull
  ELSE linoToJson(JStr(files[name].content))

LoadFromLino ==
  \E name \in FileNames :
    /\ ~exitCode.exited
    /\ last' = Call("loadFromLino", name, JUndefined, loadFromLino(name))
    /\ UNCHANGED <<dirExists, files, saved, procVars>>

LoadJsonFromLino ==
  \E name \in FileNames :
    /\ ~exitCode.exited
    /\ last' = Call("loadJsonFromLino", name, JUndefined, loadJsonFromLino(name))
    /\ UNCHANGED <<dirExists, files, saved, procVars>>

fileExists(name) == JBool(files[name].exists)

FileExists ==
  \E name \in FileNames :
    /\ ~exitCode.exited
    /\ last' = Call("fileExists", name, JUndefined, fileExists(name))
    /\ UNCHANGED <<dirExists, files, saved, procVars>>

\* requireFile handing the absent marker on to its caller
RequireFileReturningNull ==
  \E name \in FileNames :
    /\ ~exitCode.exited
    /\ last' = Call("requireFile", name, JUndefined, loadFromLino(name))
    /\ UNCHANGED <<dirExists, files, saved, procVars>>

\* requireFile: the record of loadFromLino, or process.exit(1) when there is
\* none; an exception of loadFromLino leaves requireFile as it is
RequireFile ==
  \E name \in FileNames :
    /\ ~exitCode.exited
    /\ LET data == loadFromLino(name) IN
       IF Falsy(data)
         THEN /\ exitCode' = Exited(1)
              /\ last' = Call("requireFile", name, JUndefined, JUndefined)
         ELSE /\ last' = Call("requireFile", name, JUndefined, data)
              /\ UNCHANGED exitCode
    /\ UNCHANGED <<dirExists, files, saved, writers, follower, retry,
                   scriptVars>>

\* CACHE_FILES.VK_CHATS
VK_CHATS == "vk-chats.lino"

\* hasRejectedChats with the exception of the load taken for chats found
hasRejectedChatsUncaught ==
  LET cache == loadFromLino(VK_CHATS) IN
  IF cache.k = "throw" THEN TRUE
  ELSE ~(Falsy(cache) \/ Falsy(cache.xs[3]) \/ Len(cache.xs[3].xs) = 0)

\* the body of hasRejectedChats for the value (or the exception) the load
\* gives: the try block, and false from the catch block
hasRejectedChatsIn(cache) ==
  IF cache.k = "throw" THEN FALSE
  ELSE ~(Falsy(cache) \/ Falsy(cache.xs[3]) \/ Len(cache.xs[3].xs) = 0)

hasRejectedChats == hasRejectedChatsIn(loadFromLino(VK_CHATS))

HasRejectedChats ==
  /\ ~exitCode.exited
  /\ last' = Call("hasRejectedChats", VK_CHATS, JUndefined,
                  JBool(hasRejectedChats))
  /\ UNCHANGED <<dirExists, files, saved, procVars>>

Next ==
  \/ SaveAsLino
  \/ SaveJsonAsLino
  \/ LoadFromLino
  \/ LoadJsonFromLino
  \/ FileExists
  \/ RequireFile
  \/ HasRejectedChats

Spec == Init /\ [][Next]_vars

(***************************************************************************)
(* Properties.                                                             *)
(***************************************************************************)
Saved == saved[last.name]

Content == files[last.name].content

\* whether a JSON value holds an empty array or an empty object
RECURSIVE HasEmptyContainer(_)
HasEmptyContainer(json) ==
  /\ json.k \in {"arr", "obj"}
  /\ \/ Len(json.xs) = 0
     \/ \E i \in 1..Len(json.xs) : HasEmptyContainer(json.xs[i])

\* C1: JSON round trip.  Loading with loadJsonFromLino what saveJsonAsLino
\* saved, a JSON value holding no empty array and no empty object, gives a
\* value deep-equal to the saved one: linoToJson(jsonToLino(T)) deep-equals T.
C1_JsonRoundTrip ==
  (/\ last.op = "loadJsonFromLino"
   /\ Saved.op = "saveJsonAsLino"
   /\ ~HasEmptyContainer(Saved.value))
    => DeepEquals(last.ret, Saved.value)

\* C2: flat-list round trip.  loadFromLino after saveAsLino(name, L) returns
\* as numericIds the numeric elements of L and as stringValues the string
\* elements of L, each in the order of L.
C2_FlatListRoundTrip ==
  (last.op = "loadFromLino" /\ Saved.op = "saveAsLino")
    => /\ last.ret.k = "obj"
       /\ last.ret.xs[3] = JArr(SelectSeq(Saved.value.xs, LAMBDA v : v.k = "num"))
       /\ last.ret.xs[4] = JArr(SelectSeq(Saved.value.xs, LAMBDA v : v.k = "str"))

\* a child of a link that is a link of exactly two elements whose first
\* element is a reference that does not read as a number
IsKeyValuePair(child) ==
  /\ Len(child.values) = 2
  /\ child.values[1].id # NoId
  /\ Len(child.values[1].values) = 0
  /\ parseReference(child.values[1].id).k # "num"

\* C3: decode classification.  A non-empty link decodes to an object if and
\* only if every element of it is a link of exactly two elements whose first
\* element is a reference that does not parse as a number; in every other
\* case it decodes to the array of the conversions of its elements, in order.
C3_DecodeClassification ==
  (last.op = "_convertParsedToJson" /\ Len(last.arg.link.values) > 0)
    => LET element == last.arg.link
           pairs == \A i \in 1..Len(element.values) :
                      IsKeyValuePair(element.values[i])
       IN /\ (last.ret.k = "obj") <=> pairs
          /\ ~pairs =>
               last.ret = JArr([i \in 1..Len(element.values) |->
                                  convertParsedToJson(element.values[i])])

\* C4: format escapes every value.  For a non-empty list the text is the
\* line "(", one line of two spaces and escapeReference(value) per element,
\* and the line ")".
C4_FormatEscapesEveryValue ==
  (last.op = "format" /\ last.arg.k = "arr" /\ Len(last.arg.xs) > 0)
    => last.ret.s =
         <<LP, NL>>
           \o Join([i \in 1..Len(last.arg.xs) |->
                      <<SP, SP>> \o escapeReference(last.arg.xs[i])], <<NL>>)
           \o <<NL, RP>>

\* the text of a base-10 integer
IsIntegerText(str) == str # <<>> /\ \A i \in 1..Len(str) : str[i] \in Digits

RECURSIVE IntegerElements(_)
IntegerElements(values) ==
  IF values = <<>> THEN <<>>
  ELSE (IF Head(values).id # NoId /\ IsIntegerText(Head(values).id[1])
          THEN <<JNum(DigitsValue(Head(values).id[1]), 0)>>
          ELSE <<>>)
       \o IntegerElements(Tail(values))

\* C5: parseNumericIds returns, in order, exactly the elements of the parsed
\* link whose whole text is a base-10 integer; every other element is dropped.
C5_ParseNumericIdsKeepsIntegersOnly ==
  (last.op = "parseNumericIds" /\ last.ret.k = "arr")
    => LET parsed == LinoParserParse(last.arg.s) IN
       last.ret.xs = IF parsed.links = <<>> THEN <<>>
                     ELSE IntegerElements(parsed.links[1].values)

EveryOccurrenceDoubled(str, q) ==
  Flatten([i \in 1..Len(str) |-> IF str[i] = q THEN <<q, q>> ELSE <<str[i]>>])

NumericLooking(text) ==
  LET p == LinoParserParse(text) IN
  /\ ~p.err
  /\ Len(p.links) = 1
  /\ Len(p.links[1].values) = 1
  /\ parseReference(p.links[1].values[1].id).k = "num"

\* C8: jsonToLino.  null and undefined encode as "null", a number or a
\* boolean as its literal, a string as escapeReference of it; an array of N
\* elements as one link "(e1 ... eN)" of exactly N encoded elements; an
\* object of K keys as one link of exactly K child links, each of two
\* elements: the key, a reference that never looks numeric, and the encoded
\* value.
C8_JsonToLinoEncoding ==
  last.op = "jsonToLino"
    => LET json == last.arg
           out == last.ret.s
           parsed == LinoParserParse(out)
       IN /\ json.k \in {"null", "undefined"} => out = NullText
          /\ json.k \in {"num", "bool"} => out = String(json)
          /\ json.k = "str" => out = escapeReference(json)
          /\ json.k = "arr" =>
               /\ out = <<LP>>
                          \o Join([i \in 1..Len(json.xs) |-> jsonToLino(json.xs[i])],
                                  <<SP>>)
                          \o <<RP>>
               /\ ~parsed.err /\ Len(parsed.links) = 1
               /\ Len(parsed.links[1].values) = Len(json.xs)
          /\ json.k = "obj" =>
               /\ ~parsed.err /\ Len(parsed.links) = 1
               /\ Len(parsed.links[1].values) = Len(json.keys)
               /\ \A i \in 1..Len(json.keys) :
                    LET child == parsed.links[1].values[i] IN
                    /\ Len(child.values) = 2
                    /\ child.values[1] = Reference(json.keys[i])
                    /\ ~NumericLooking(escapeReference(JStr(json.keys[i])))

\* C9: empty-container ambiguity.  linoToJson of "()" is the empty array:
\* loadJsonFromLino after saveJsonAsLino of {} or of [] returns [], and the
\* empty object is never returned by decoding.
C9_EmptyContainerDecodesToArray ==
  (last.op = "loadJsonFromLino" /\ files[last.name].exists)
    => /\ Content = <<LP, RP>> => last.ret = JArr(<<>>)
       /\ (/\ Saved.op = "saveJsonAsLino"
           /\ Saved.value \in {JObj(<<>>, <<>>), JArr(<<>>)})
            => last.ret = JArr(<<>>)
       /\ ~(last.ret.k = "obj" /\ Len(last.ret.keys) = 0)

\* the empty object was saved and the empty array came back
C9_Witness ==
  /\ last.op = "loadJsonFromLino"
  /\ Saved.op = "saveJsonAsLino"
  /\ Saved.value = JObj(<<>>, <<>>)
  /\ Content = <<LP, RP>>
  /\ last.ret = JArr(<<>>)

\* C10: scalar unwrapping.  When the first parsed link converts to a
\* one-element array holding one primitive, linoToJson returns that primitive
\* and not the array; a saved scalar is never loaded as a one-element array.
C10_ScalarUnwrapping ==
  (last.op = "loadJsonFromLino" /\ files[last.name].exists)
    => LET parsed == LinoParserParse(Content) IN
       /\ (~parsed.err /\ Len(parsed.links) > 0) =>
            LET result == convertParsedToJson(parsed.links[1]) IN
            (result.k = "arr" /\ Len(result.xs) = 1 /\ IsPrimitive(result.xs[1]))
              => last.ret = result.xs[1]
       /\ (Saved.op = "saveJsonAsLino" /\ IsPrimitive(Saved.value))
            => ~(last.ret.k = "arr" /\ Len(last.ret.xs) = 1)

\* the number 1 was saved, its text parsed to a link wrapping one reference,
\* and the number 1 came back
C10_Witness ==
  /\ last.op = "loadJsonFromLino"
  /\ Saved.op = "saveJsonAsLino"
  /\ Saved.value = JNum(1, 0)
  /\ LinoParserParse(Content).links = <<Link(<<Reference(<<"1">>)>>)>>
  /\ last.ret = JNum(1, 0)

\* C11: absence is not an error.  For a file name with no file in the
\* storage directory loadFromLino and loadJsonFromLino return null and
\* fileExists returns false; the call throws nothing, creates neither the
\* file nor the directory, and does not end the process.
C11_AbsenceIsNotAnError ==
  [][(/\ last'.op \in {"loadFromLino", "loadJsonFromLino", "fileExists"}
      /\ ~files[last'.name].exists)
       => /\ last'.ret = IF last'.op = "fileExists" THEN JBool(FALSE) ELSE JNull
          /\ files' = files
          /\ dirExists' = dirExists
          /\ ~exitCode'.exited]_vars

\* loadFromLino has returned null for the absent file, with no directory
C11_Witness ==
  /\ last.op = "loadFromLino"
  /\ ~files[last.name].exists
  /\ ~dirExists
  /\ last.ret = JNull

\* the position after the quoted reference opened before position j
RECURSIVE SkipQuoted(_, _, _)
SkipQuoted(t, j, q) ==
  IF j > Len(t) THEN j
  ELSE IF t[j] = q
    THEN IF j + 1 <= Len(t) /\ t[j + 1] = q THEN SkipQuoted(t, j + 2, q)
         ELSE j + 1
  ELSE SkipQuoted(t, j + 1, q)

\* the number of opening parentheses of t, from position i on, that no
\* closing parenthesis matches; d counts those open before i, and atStart
\* tells whether a reference may start at i
RECURSIVE OpenParens(_, _, _, _)
OpenParens(t, i, d, atStart) ==
  IF i > Len(t) THEN d
  ELSE IF atStart /\ t[i] \in {SQ, DQ}
    THEN OpenParens(t, SkipQuoted(t, i + 1, t[i]), d, FALSE)
  ELSE IF t[i] = LP THEN OpenParens(t, i + 1, d + 1, TRUE)
  ELSE IF t[i] = RP
    THEN OpenParens(t, i + 1, IF d > 0 THEN d - 1 ELSE 0, TRUE)
  ELSE OpenParens(t, i + 1, d, t[i] \in Whitespace)

UnmatchedOpen(t) == OpenParens(t, 1, 0, TRUE) > 0

\* C12: malformed input fails whole.  On a text with an unmatched "("
\* parse, parseNumericIds, parseStringValues and linoToJson raise the parse
\* error and return nothing else; loadFromLino and loadJsonFromLino of an
\* existing file of such a text raise that error and do not return null.
C12_MalformedInputFailsWhole ==
  (/\ last.op \in {"loadFromLino", "loadJsonFromLino"}
   /\ files[last.name].exists
   /\ UnmatchedOpen(Content))
    => /\ parse(JStr(Content)) = ParseError
       /\ parseNumericIds(JStr(Content)) = ParseError
       /\ parseStringValues(JStr(Content)) = ParseError
       /\ linoToJson(JStr(Content)) = ParseError
       /\ last.ret = ParseError

\* the list holding "(" was saved unescaped and loading it raised the error
C12_Witness ==
  /\ last.op = "loadFromLino"
  /\ Saved.op = "saveAsLino"
  /\ Saved.value = JArr(<<JStr(<<LP>>)>>)
  /\ Content = <<LP, NL, SP, SP, LP, NL, RP>>
  /\ last.ret = ParseError

(***************************************************************************)
(* Two writers of the cache files.  A save is the statements of saveAsLino *)
(* or saveJsonAsLino (src/lino.lib.mjs:132-138, 393-399) taken one by one: *)
(* fs.existsSync of ensureDir, fs.mkdirSync, fs.writeFileSync.  The        *)
(* writers are two processes, so their statements interleave.              *)
(***************************************************************************)
CacheNames == {"vk-chats.lino", "telegram-links.lino"}

\* the saves a writer asks for
SaveRequests ==
  {[op |-> "saveAsLino", value |-> v] :
     v \in {JArr(<<>>), JArr(<<JNum(1, 0)>>),
            JArr(<<JNum(12, 0), JStr(<<"a">>)>>)}}
    \cup {[op |-> "saveJsonAsLino",
           value |-> JObj(<<<<"a">>>>, <<JNum(1, 0)>>)]}

\* the text a save writes
TextOf(op, value) ==
  IF op = "saveAsLino" THEN format(value) ELSE jsonToLino(value)

WritersInit ==
  /\ dirExists = FALSE
  /\ files = [n \in CacheNames |-> NoFile]
  /\ saved = [n \in CacheNames |-> NotSaved]
  /\ last = NoCall
  /\ ProcInit

\* the writer calls saveAsLino or saveJsonAsLino
BeginSave(w) ==
  \E name \in CacheNames, request \in SaveRequests :
    /\ writers[w].pc = "idle"
    /\ writers' = [writers EXCEPT ![w] =
                     [pc |-> "ensureDir", op |-> request.op, name |-> name,
                      value |-> request.value]]
    /\ UNCHANGED <<dirExists, files, saved, last, exitCode, follower, retry,
                   scriptVars>>

\* ensureDir: if (!fs.existsSync(this.storageDir))
EnsureDir(w) ==
  /\ writers[w].pc = "ensureDir"
  /\ writers' = [writers EXCEPT ![w].pc =
                   IF dirExists THEN "write" ELSE "mkdir"]
  /\ UNCHANGED <<dirExists, files, saved, last, exitCode, follower, retry,
                 scriptVars>>

\* ensureDir: fs.mkdirSync(this.storageDir, { recursive: true }), which
\* accepts a directory that exists
MkDir(w) ==
  /\ writers[w].pc = "mkdir"
  /\ dirExists' = TRUE
  /\ writers' = [writers EXCEPT ![w].pc = "write"]
  /\ UNCHANGED <<files, saved, last, exitCode, follower, retry, scriptVars>>

\* fs.writeFileSync(filePath, linksNotation); return filePath
Write(w) ==
  /\ writers[w].pc = "write"
  /\ LET op == writers[w].op
         name == writers[w].name
         value == writers[w].value
     IN /\ WriteFile(name, TextOf(op, value))
        /\ saved' = [saved EXCEPT ![name] = [op |-> op, value |-> value]]
        /\ last' = Call(op, name, value, JStr(getFilePath(name)))
  /\ writers' = [writers EXCEPT ![w] = IdleWriter]
  /\ UNCHANGED <<exitCode, follower, retry, scriptVars>>

\* a reader loads a cache file
ReadCache ==
  \E name \in CacheNames :
    /\ \/ last' = Call("loadFromLino", name, JUndefined, loadFromLino(name))
       \/ last' = Call("loadJsonFromLino", name, JUndefined,
                       loadJsonFromLino(name))
    /\ UNCHANGED <<dirExists, files, saved, procVars>>

WritersNext ==
  \/ \E w \in Writers : BeginSave(w)
  \/ \E w \in Writers : EnsureDir(w)
  \/ \E w \in Writers : MkDir(w)
  \/ \E w \in Writers : Write(w)
  \/ ReadCache

WritersSpec == WritersInit /\ [][WritersNext]_vars

\* the text of the save to the name that completed most recently
SavedText(name) == TextOf(saved[name].op, saved[name].value)

\* C13: whole-file overwrite, last writer wins.  Whatever the interleaving
\* of the saves of the two writers, the file of a name holds exactly the
\* text of the save to that name that completed most recently (no file when
\* there was none); a load returns the decoding of that text; and a step
\* that changes the file of a name is a save to that name, which leaves the
\* files of the other names as they were.
C13_LastWriterWins ==
  /\ [](\A name \in DOMAIN files :
          files[name] = IF saved[name].op = "none" THEN NoFile
                        ELSE [exists |-> TRUE, content |-> SavedText(name)])
  /\ []((last.op \in {"loadFromLino", "loadJsonFromLino"}
          /\ Saved.op # "none")
         => last.ret = IF last.op = "loadFromLino"
                         THEN LoadRecord(last.name, SavedText(last.name))
                         ELSE linoToJson(JStr(SavedText(last.name))))
  /\ [][\A name \in DOMAIN files :
          files'[name] # files[name]
            => /\ last'.op \in {"saveAsLino", "saveJsonAsLino"}
               /\ last'.name = name
               /\ files'[name].content = TextOf(last'.op, last'.arg)
               /\ \A other \in DOMAIN files \ {name} :
                    files'[other] = files[other]]_vars

\* the first writer has completed its save of [1] to vk-chats.lino, whose
\* file holds exactly that text, while the second writer stands before the
\* write of its own save to that name; the other file exists
C13_Witness ==
  /\ last.op = "saveAsLino"
  /\ last.name = "vk-chats.lino"
  /\ last.arg = JArr(<<JNum(1, 0)>>)
  /\ files["vk-chats.lino"].content = <<LP, NL, SP, SP, "1", NL, RP>>
  /\ files["telegram-links.lino"].exists
  /\ writers["w1"].pc = "idle"
  /\ writers["w2"].pc = "write"
  /\ writers["w2"].name = "vk-chats.lino"

\* C14: requireFile.  When the file is absent requireFile ends the process
\* with exit status 1 and returns nothing; when the file exists it returns
\* what loadFromLino returns and the process goes on.  No other operation
\* on the files ends the process.
C14_RequireFile ==
  /\ [](last.op = "requireFile"
          => IF files[last.name].exists
               THEN last.ret = loadFromLino(last.name) /\ ~exitCode.exited
               ELSE last.ret = JUndefined /\ exitCode = Exited(1))
  /\ [][exitCode' # exitCode => last'.op = "requireFile"]_vars

\* requireFile has ended the process with status 1 for the absent file
C14_Witness ==
  /\ last.op = "requireFile"
  /\ ~files[last.name].exists
  /\ exitCode = Exited(1)

\* C15: empty input.  parse, parseNumericIds and parseStringValues return
\* the empty list, with no error, for the empty string, null and undefined;
\* format returns "()" for the empty list and for null.
C15_EmptyInput ==
  /\ (/\ last.op \in {"parse", "parseNumericIds", "parseStringValues"}
      /\ last.arg \in {JStr(<<>>), JNull, JUndefined})
       => last.ret = JArr(<<>>)
  /\ (last.op = "format" /\ last.arg \in {JArr(<<>>), JNull})
       => last.ret = JStr(<<LP, RP>>)

\* format has returned "()" for null
C15_Witness ==
  /\ last.op = "format"
  /\ last.arg = JNull
  /\ last.ret = JStr(<<LP, RP>>)

(***************************************************************************)
(* The auto-follow sequence: AutoFollower.run of src/auto-follow.mjs and   *)
(* of its later revision (src/unnamed/part_000), with the scripts it runs  *)
(* as child processes.  follower is                                        *)
(*   pc        "none" before run(), "spawn" before executeScript, "wait"   *)
(*             while the child runs, "check" at the test of the exit code  *)
(*             of the send, "while" at the loop condition, "done" after    *)
(*             run() returned, "failed" after process.exit(1)              *)
(*   later     whether the process runs the later revision                 *)
(*   step      the step of the script: 1 to 4                              *)
(*   iteration the variable iteration of the retry loop, 0 before it       *)
(*   exitCode  the exit code of the last send                              *)
(*   started   the scripts started so far, in order                        *)
(*   sentTo    the chats the last send sent the link to                    *)
(*   rejected  the chats whose message of the last send was deleted        *)
(***************************************************************************)
maxIterations == 10

ScriptOf(step) ==
  CASE step = 1 -> "./vk-list-chats.mjs"
    [] step = 2 -> "./vk-extract-telegram-links.mjs"
    [] step = 3 -> "./telegram-follow.mjs"
    [] step = 4 -> "./vk-send-telegram-link-to-chats.mjs"

\* the chat ids vk-list-chats can find
ChatIdLists ==
  {<<>>, <<JNum(1, 0)>>, <<JNum(12, 0)>>, <<JNum(1, 0), JNum(12, 0)>>}

\* the exit codes a child closes with that its script does not choose: the
\* shell that cannot run the script, and null for a child killed by a signal
AbnormalCodes == {JNum(127, 0), JNull}

RECURSIVE Pick(_, _, _)
Pick(xs, S, i) ==
  IF i > Len(xs) THEN <<>>
  ELSE (IF i \in S THEN <<xs[i]>> ELSE <<>>) \o Pick(xs, S, i + 1)

\* the subsequences of xs
SubSeqs(xs) == {Pick(xs, S, 1) : S \in SUBSET (1..Len(xs))}

\* LoadRecord of every text vk-list-chats writes to VK_CHATS, worked out once
ChatListRecords ==
  [text \in {format(JArr(ids)) : ids \in ChatIdLists} |->
     LoadRecord(VK_CHATS, text)]

\* loadFromLino(VK_CHATS) while run() runs, read off ChatListRecords
loadVkChats ==
  IF ~files[VK_CHATS].exists THEN JNull
  ELSE ChatListRecords[files[VK_CHATS].content]

\* the cache of an earlier run, or none
RunInit ==
  /\ \/ dirExists \in BOOLEAN /\ files = [n \in FileNames |-> NoFile]
     \/ /\ dirExists = TRUE
        /\ \E ids \in ChatIdLists :
             files = [n \in FileNames |->
                        [exists |-> TRUE, content |-> format(JArr(ids))]]
  /\ saved = [n \in FileNames |-> NotSaved]
  /\ last = NoCall
  /\ exitCode = NotExited
  /\ writers = [w \in Writers |-> IdleWriter]
  /\ follower \in {[NoRun EXCEPT !.later = b] : b \in BOOLEAN}
  /\ retry = NoRetry
  /\ ScriptInit

\* run() is called
Run ==
  /\ follower.pc = "none"
  /\ follower' = [follower EXCEPT !.pc = "spawn", !.step = 1]
  /\ UNCHANGED <<dirExists, files, saved, last, exitCode, writers, retry,
                 scriptVars>>

\* executeScript: spawn(scriptPath, args, ...)
ExecuteScript ==
  /\ follower.pc = "spawn"
  /\ follower' = [follower EXCEPT
                    !.pc = "wait",
                    !.started = Append(@, ScriptOf(follower.step))]
  /\ UNCHANGED <<dirExists, files, saved, last, exitCode, writers, retry,
                 scriptVars>>

\* vk-list-chats closes: it has saved the chat ids it found to VK_CHATS
\* (src/telegram-join-group.mjs:353), or it has failed before that; run()
\* drops its exit code
ListChatsClose ==
  /\ follower.pc = "wait"
  /\ follower.step = 1
  /\ \/ \E ids \in ChatIdLists :
          /\ WriteFile(VK_CHATS, format(JArr(ids)))
          /\ saved' = [saved EXCEPT ![VK_CHATS] =
                         [op |-> "saveAsLino", value |-> JArr(ids)]]
     \/ UNCHANGED <<dirExists, files, saved>>
  /\ follower' = [follower EXCEPT !.pc = "spawn", !.step = 2]
  /\ UNCHANGED <<last, exitCode, writers, retry, scriptVars>>

\* vk-extract-telegram-links or telegram-follow closes; neither writes
\* VK_CHATS, and run() drops the exit code
ScriptClose ==
  /\ follower.pc = "wait"
  /\ follower.step \in {2, 3}
  /\ follower' = [follower EXCEPT !.pc = "spawn", !.step = @ + 1]
  /\ UNCHANGED <<dirExists, files, saved, last, exitCode, writers, retry,
                 scriptVars>>

\* vk-send-telegram-link-to-chats closes.  It takes the chat ids of VK_CHATS
\* (requireCache, exit 1 when there is no file), sends the link to them,
\* a failed send being skipped, watches the messages, and exits 0 when none
\* was deleted and 1 otherwise.  It writes no file.
SendLinkClose ==
  /\ follower.pc = "wait"
  /\ follower.step = 4
  /\ LET cache == loadVkChats IN
     \/ /\ cache.k = "obj"
        /\ \E sent \in SubSeqs(cache.xs[3].xs) :
             \E deleted \in SubSeqs(sent) :
               follower' = [follower EXCEPT
                              !.pc = "check",
                              !.exitCode = IF deleted = <<>> THEN JNum(0, 0)
                                           ELSE JNum(1, 0),
                              !.sentTo = sent,
                              !.rejected = deleted]
     \/ /\ cache.k # "obj"
        /\ follower' = [follower EXCEPT
                          !.pc = "check", !.exitCode = JNum(1, 0),
                          !.sentTo = <<>>, !.rejected = <<>>]
     \/ \E code \in AbnormalCodes :
          follower' = [follower EXCEPT
                         !.pc = "check", !.exitCode = code,
                         !.sentTo = <<>>, !.rejected = <<>>]
  /\ UNCHANGED <<dirExists, files, saved, last, exitCode, writers, retry,
                 scriptVars>>

\* the child emits 'error': executeScript rejects, and the catch block of
\* run() calls process.exit(1)
ChildError ==
  /\ follower.pc = "wait"
  /\ follower' = [follower EXCEPT !.pc = "failed"]
  /\ exitCode' = Exited(1)
  /\ UNCHANGED <<dirExists, files, saved, last, writers, retry, scriptVars>>

\* the test of the exit code of the send with no case for 0
CheckExitCodeNoSuccessCase ==
  /\ follower.pc = "check"
  /\ follower' = [follower EXCEPT !.pc = "while", !.iteration = @ + 1]
  /\ UNCHANGED <<dirExists, files, saved, last, exitCode, writers, retry,
                 scriptVars>>

\* if (exitCode === 0) return, before the loop, and if (retryExitCode === 0)
\* break, inside it; the later revision throws on a code that is neither 0
\* nor 1; otherwise let iteration = 1, or iteration++
CheckExitCode ==
  /\ follower.pc = "check"
  /\ IF follower.exitCode = JNum(0, 0)
       THEN /\ follower' = [follower EXCEPT !.pc = "done"]
            /\ UNCHANGED exitCode
     ELSE IF follower.later /\ follower.exitCode # JNum(1, 0)
       THEN /\ follower' = [follower EXCEPT !.pc = "failed"]
            /\ exitCode' = Exited(1)
     ELSE /\ follower' = [follower EXCEPT !.pc = "while", !.iteration = @ + 1]
          /\ UNCHANGED exitCode
  /\ UNCHANGED <<dirExists, files, saved, last, writers, retry, scriptVars>>

\* the loop condition with no limit on the iterations
WhileNoLimit ==
  /\ follower.pc = "while"
  /\ follower' = IF hasRejectedChatsIn(loadVkChats)
                   THEN [follower EXCEPT !.pc = "spawn", !.step = 2]
                   ELSE [follower EXCEPT !.pc = "done"]
  /\ UNCHANGED <<dirExists, files, saved, last, exitCode, writers, retry,
                 scriptVars>>

\* while (this.hasRejectedChats() && iteration <= maxIterations)
While ==
  /\ follower.pc = "while"
  /\ follower' = IF /\ hasRejectedChatsIn(loadVkChats)
                      /\ follower.iteration <= maxIterations
                   THEN [follower EXCEPT !.pc = "spawn", !.step = 2]
                   ELSE [follower EXCEPT !.pc = "done"]
  /\ UNCHANGED <<dirExists, files, saved, last, exitCode, writers, retry,
                 scriptVars>>

RunNext ==
  \/ Run
  \/ ExecuteScript
  \/ ListChatsClose
  \/ ScriptClose
  \/ SendLinkClose
  \/ ChildError
  \/ CheckExitCode
  \/ While

RunSpec == RunInit /\ [][RunNext]_vars

\* every child process closes or fails, and run() takes its next step
FairRunSpec == RunSpec /\ WF_vars(RunNext)

\* the script the i-th start of run() starts: the four steps in order, then
\* steps 2, 3, 4 again and again
ExpectedScript(i) == IF i <= 4 THEN ScriptOf(i) ELSE ScriptOf(2 + ((i - 5) % 3))

\* C16: run() starts the four scripts in the order list-chats,
\* extract-links, telegram-follow, send-link, each when no child is running;
\* after a failed first send it repeats steps 2, 3, 4 in that order, never
\* step 1, for at most 10 iterations; an iteration starts only after a
\* send that did not exit 0 and while rejected chats remain; and run()
\* comes to its end when every child process does.
C16_RunOrderAndTermination ==
  /\ [](\A i \in 1..Len(follower.started) :
          follower.started[i] = ExpectedScript(i))
  /\ [](Len(follower.started) <= 4 + 3 * 10)
  /\ [][follower'.started # follower.started
         => /\ follower.pc = "spawn"
            /\ Len(follower'.started) = Len(follower.started) + 1]_vars
  /\ [][(follower'.started # follower.started /\ follower.step = 2
           /\ Len(follower.started) >= 4)
         => /\ follower.exitCode # JNum(0, 0)
            /\ hasRejectedChats
            /\ follower.iteration \in 1..10]_vars
  /\ <>(follower.pc \in {"done", "failed"})

\* run() has returned after the tenth retry iteration: 34 scripts started
C16_Witness ==
  /\ follower.pc = "done"
  /\ follower.iteration = 11
  /\ Len(follower.started) = 34
  /\ follower.exitCode = JNum(1, 0)

\* C17: a send that exits 0 ends run(): after the first send no retry
\* iteration is executed, whatever VK_CHATS holds, and inside the loop the
\* loop ends in that iteration; no script is started after that.
C17_SuccessEndsTheLoop ==
  /\ [][(follower.pc = "check" /\ follower.exitCode = JNum(0, 0))
         => /\ follower'.pc = "done"
            /\ follower'.iteration = follower.iteration
            /\ follower'.started = follower.started]_vars
  /\ [][follower.pc = "done" => follower' = follower]_vars
  /\ [](Len(follower.started) > 4 => follower.iteration >= 1)

\* run() has returned after a first send that exited 0, with no retry
\* iteration, while VK_CHATS holds chats
C17_Witness ==
  /\ follower.pc = "done"
  /\ follower.iteration = 0
  /\ follower.exitCode = JNum(0, 0)
  /\ follower.started = <<ScriptOf(1), ScriptOf(2), ScriptOf(3), ScriptOf(4)>>
  /\ hasRejectedChats

\* C18: rejected-chat bookkeeping.  When the send has closed with exit code
\* 0, VK_CHATS holds the empty list; when it has closed with exit code 1,
\* VK_CHATS holds exactly the chats whose message was deleted; and the send
\* of a retry iteration sends only to chats rejected by the send before it.
C18_RejectedChatBookkeeping ==
  /\ []((follower.pc = "check" /\ follower.exitCode = JNum(0, 0))
         => files[VK_CHATS] = [exists |-> TRUE, content |-> <<LP, RP>>])
  /\ []((follower.pc = "check" /\ follower.exitCode = JNum(1, 0))
         => /\ files[VK_CHATS].exists
            /\ parseNumericIds(JStr(files[VK_CHATS].content))
                 = JArr(follower.rejected))
  /\ [][(follower.pc = "wait" /\ follower.step = 4
           /\ follower.iteration >= 1 /\ follower'.pc = "check")
         => \A i \in 1..Len(follower'.sentTo) :
              \E j \in 1..Len(follower.rejected) :
                follower'.sentTo[i] = follower.rejected[j]]_vars

\* C19: hasRejectedChats returns true if and only if the VK_CHATS file
\* exists and parses to at least one numeric id; it returns false for the
\* missing file, for the file "()" and when the load raises an error; it
\* throws nothing and leaves the cache as it was.
C19_HasRejectedChats ==
  /\ [](last.op = "hasRejectedChats"
          => LET ids == parseNumericIds(JStr(files[VK_CHATS].content)) IN
             last.ret = JBool(/\ files[VK_CHATS].exists
                              /\ ids.k = "arr"
                              /\ Len(ids.xs) >= 1))
  /\ []((last.op = "hasRejectedChats"
          /\ \/ ~files[VK_CHATS].exists
             \/ files[VK_CHATS].content = <<LP, RP>>
             \/ loadFromLino(VK_CHATS).k = "throw")
         => last.ret = JBool(FALSE))
  /\ [][last'.op = "hasRejectedChats"
         => files' = files /\ dirExists' = dirExists]_vars

\* hasRejectedChats has returned false for a cache file that does not parse
C19_Witness ==
  /\ last.op = "hasRejectedChats"
  /\ files[VK_CHATS].exists
  /\ loadFromLino(VK_CHATS) = ParseError
  /\ last.ret = JBool(FALSE)

(***************************************************************************)
(* VKChatLister.retryOperation (src/telegram-join-group.mjs:247-275).      *)
(* retry holds one call:                                                   *)
(*   pc         "none" before the call, "loop" at the test of the for      *)
(*              loop, "call" while operation() is awaited, "backoff"       *)
(*              while the timer runs, "returned" or "thrown" at the end    *)
(*   maxRetries the parameter, its default applied                         *)
(*   attempt    the loop variable                                          *)
(*   calls      what each operation() so far settled with: [ok, value]     *)
(*   waits      the backoffMs of each timer started                        *)
(*   lastError  the variable lastError                                     *)
(*   result     the value returned, or the value thrown                    *)
(***************************************************************************)
MaxRetriesInput == 6

defaultMaxRetries == 3

aborted == <<"a", "b", "o", "r", "t", "e", "d">>

ABORT_ERR == <<"A", "B", "O", "R", "T", "_", "E", "R", "R">>

typeKey == <<"t", "y", "p", "e">>

messageKey == <<"m", "e", "s", "s", "a", "g", "e">>

codeKey == <<"c", "o", "d", "e">>

TypeError == JThrow(<<"T", "y", "p", "e", "E", "r", "r", "o", "r">>)

\* String.prototype.includes(search)
StringIncludes(str, search) ==
  \E i \in 0..(Len(str) - Len(search)) :
    SubSeq(str, i + 1, i + Len(search)) = search

\* value[key] for the keys the model reads: a TypeError on null and
\* undefined, the property of an object, undefined on a primitive
GetProperty(value, key) ==
  IF value.k \in {"null", "undefined"} THEN TypeError
  ELSE IF value.k = "obj" /\ \E i \in 1..Len(value.keys) : value.keys[i] = key
    THEN value.xs[CHOOSE i \in 1..Len(value.keys) : value.keys[i] = key]
  ELSE JUndefined

\* error.message?.includes('aborted'): undefined for a message that is null
\* or undefined, a TypeError for one that has no method includes
messageIncludesAborted(error) ==
  LET message == GetProperty(error, messageKey) IN
  IF message.k \in {"null", "undefined"} THEN JUndefined
  ELSE IF message.k = "str" THEN JBool(StringIncludes(message.s, aborted))
  ELSE TypeError

\* const isTimeoutError = error.type === 'aborted' ||
\*   error.message?.includes('aborted') || error.code === 'ABORT_ERR'
isTimeoutError(error) ==
  IF GetProperty(error, typeKey) = TypeError THEN TypeError
  ELSE IF GetProperty(error, typeKey) = JStr(aborted) THEN JBool(TRUE)
  ELSE IF messageIncludesAborted(error) = TypeError THEN TypeError
  ELSE IF ~Falsy(messageIncludesAborted(error)) THEN JBool(TRUE)
  ELSE JBool(GetProperty(error, codeKey) = JStr(ABORT_ERR))

\* the errors operation() rejects with: the abort of the request in its
\* three forms, an API error, a bare object, an error with a numeric
\* message, a string, null, and undefined (reject() with no reason)
Errors ==
  {JObj(<<typeKey, messageKey>>, <<JStr(aborted), JStr(<<"x">>)>>),
   JObj(<<messageKey>>, <<JStr(<<"x", " ">> \o aborted \o <<".">>)>>),
   JObj(<<messageKey, codeKey>>, <<JStr(<<"x">>), JStr(ABORT_ERR)>>),
   JObj(<<messageKey, codeKey>>, <<JStr(<<"x">>), JNum(5, 0)>>),
   JObj(<<>>, <<>>),
   JObj(<<messageKey>>, <<JNum(5, 0)>>),
   JStr(aborted),
   JNull,
   JUndefined}

\* the values operation() resolves with
Results == {JStr(<<"o", "k">>), JUndefined}

\* what one operation() settles with
Outcomes ==
  {[ok |-> TRUE, value |-> v] : v \in Results}
    \cup {[ok |-> FALSE, value |-> e] : e \in Errors}

\* the argument maxRetries: left out, or a count
MaxRetriesInputs == {JUndefined} \cup {JNum(n, 0) : n \in 0..MaxRetriesInput}

RECURSIVE Pow2(_)
Pow2(e) == IF e = 0 THEN 1 ELSE 2 * Pow2(e - 1)

\* the backoff without Math.min
backoffMsUncapped(attempt) == 1000 * Pow2(attempt - 1)

\* Math.min(1000 * Math.pow(2, attempt - 1), 10000)
backoffMs(attempt) ==
  IF 1000 * Pow2(attempt - 1) < 10000 THEN 1000 * Pow2(attempt - 1) ELSE 10000

RetryInit ==
  /\ dirExists = FALSE
  /\ files = [n \in FileNames |-> NoFile]
  /\ saved = [n \in FileNames |-> NotSaved]
  /\ last = NoCall
  /\ exitCode = NotExited
  /\ writers = [w \in Writers |-> IdleWriter]
  /\ follower = NoRun
  /\ retry = NoRetry
  /\ ScriptInit

\* retryOperation(operation, operationName, maxRetries) is called:
\* let lastError; let attempt = 1
RetryOperation ==
  /\ retry.pc = "none"
  /\ \E maxRetries \in MaxRetriesInputs :
       retry' = [retry EXCEPT
                   !.pc = "loop",
                   !.maxRetries = IF maxRetries = JUndefined
                                    THEN defaultMaxRetries
                                    ELSE maxRetries.n[1],
                   !.attempt = 1]
  /\ UNCHANGED <<dirExists, files, saved, last, exitCode, writers, follower,
                 scriptVars>>

\* attempt <= maxRetries: operation() is called; otherwise throw lastError
ForTest ==
  /\ retry.pc = "loop"
  /\ retry' = IF retry.attempt <= retry.maxRetries
                THEN [retry EXCEPT !.pc = "call"]
                ELSE [retry EXCEPT !.pc = "thrown", !.result = retry.lastError]
  /\ UNCHANGED <<dirExists, files, saved, last, exitCode, writers, follower,
                 scriptVars>>

\* the catch block: lastError = error, the test of the error, and the
\* backoff or the throw
Catch(error) ==
  IF isTimeoutError(error) = TypeError
    THEN [retry EXCEPT !.pc = "thrown", !.lastError = error,
                       !.result = TypeError]
  ELSE IF isTimeoutError(error) = JBool(TRUE)
          /\ retry.attempt < retry.maxRetries
    THEN [retry EXCEPT !.pc = "backoff", !.lastError = error,
                       !.waits = Append(@, backoffMs(retry.attempt))]
  ELSE [retry EXCEPT !.pc = "thrown", !.lastError = error, !.result = error]

\* operation() settles: return await operation(), or the catch block
Attempt ==
  /\ retry.pc = "call"
  /\ \E outcome \in Outcomes :
       retry' = [(IF outcome.ok
                    THEN [retry EXCEPT !.pc = "returned",
                                       !.result = outcome.value]
                    ELSE Catch(outcome.value))
                 EXCEPT !.calls = Append(@, outcome)]
  /\ UNCHANGED <<dirExists, files, saved, last, exitCode, writers, follower,
                 scriptVars>>

\* the timer of the backoff fires: continue, attempt++
Continue ==
  /\ retry.pc = "backoff"
  /\ retry' = [retry EXCEPT !.pc = "loop", !.attempt = @ + 1]
  /\ UNCHANGED <<dirExists, files, saved, last, exitCode, writers, follower,
                 scriptVars>>

RetryNext ==
  \/ RetryOperation
  \/ ForTest
  \/ Attempt
  \/ Continue

RetrySpec == RetryInit /\ [][RetryNext]_vars

\* a timeout or abort error as the README and the comment of the code
\* describe it: type 'aborted', a message containing 'aborted', or code
\* 'ABORT_ERR'
TimeoutOrAbort(error) ==
  /\ error.k = "obj"
  /\ \/ GetProperty(error, typeKey) = JStr(aborted)
     \/ /\ GetProperty(error, messageKey).k = "str"
        /\ StringIncludes(GetProperty(error, messageKey).s, aborted)
     \/ GetProperty(error, codeKey) = JStr(ABORT_ERR)

ListedWait(i) ==
  CASE i = 1 -> 1000 [] i = 2 -> 2000 [] i = 3 -> 4000 [] i = 4 -> 8000
    [] OTHER -> 10000

\* C21: the backoff of retryOperation.  The wait before retry number i is
\* min(1000 * 2^(i-1), 10000) ms, that is 1s, 2s, 4s, 8s and then 10s; no
\* wait exceeds 10 seconds; and a wait is started only by the attempt of
\* its number, one wait per failed attempt that is retried.
C21_Backoff ==
  /\ [](\A i \in 1..Len(retry.waits) :
          /\ retry.waits[i] = ListedWait(i)
          /\ retry.waits[i] <= 10000)
  /\ [][retry'.waits # retry.waits
         => /\ retry'.waits = Append(retry.waits, ListedWait(retry.attempt))
            /\ Len(retry'.waits) = retry.attempt
            /\ retry'.pc = "backoff"]_vars

\* the fifth retry is waited for, with the capped wait after 1s, 2s, 4s, 8s
C21_Witness ==
  /\ retry.pc = "backoff"
  /\ retry.waits = <<1000, 2000, 4000, 8000, 10000>>

(***************************************************************************)
(* TelegramUserClient.parseInviteLink                                      *)
(* (src/vk-send-telegram-link-to-chats.mjs:568-595) and                    *)
(* TelegramFollower.followLinks (src/unnamed/part_009:608-1061, and its    *)
(* earlier revision src/telegram-join-group.mjs:969-1290).                 *)
(* linkFollower holds one call of followLinks:                             *)
(*   pc        "none" before the call, "loop" at the head of the for loop, *)
(*             "access" while getEntity of a private channel is awaited,   *)
(*             "join" while a public or an invite link is processed,       *)
(*             "returned" or "thrown" at the end                           *)
(*   later     whether the later revision of the function runs             *)
(*   links, i  the argument and the loop variable, counted from 1          *)
(*   parsed    what parseInviteLink returned for each link so far          *)
(*   outcomes  how the processing of each link so far ended: "ok" or the   *)
(*             message of the error raised                                 *)
(*   stoppedAt the link at which a break left the loop, 0 for none         *)
(*   joined, alreadyMember, requestSent, failed, invalid: the results      *)
(*   thrown    the message of the exception that left followLinks          *)
(***************************************************************************)
MaxLinks == 2

LowerCase ==
  <<"a", "b", "c", "d", "e", "f", "g", "h", "i", "j", "k", "l", "m", "n",
    "o", "p", "q", "r", "s", "t", "u", "v", "w", "x", "y", "z">>

\* [A-Za-z0-9_] and [A-Za-z0-9_-], over the letters of the model's texts
WordChars ==
  {LowerCase[k] : k \in 1..Len(LowerCase)} \cup Digits \cup {"_"}

HashChars == WordChars \cup {"-"}

\* whether the literal lit stands in text at position p
LiteralAt(text, p, lit) ==
  /\ p + Len(lit) - 1 <= Len(text)
  /\ SubSeq(text, p, p + Len(lit) - 1) = lit

\* the longest run of characters of class from position p on: [class]+
RECURSIVE GreedyRun(_, _, _)
GreedyRun(text, p, class) ==
  IF p <= Len(text) /\ text[p] \in class
    THEN <<text[p]>> \o GreedyRun(text, p + 1, class)
  ELSE <<>>

\* text.match(/lit([class]+)/): the capture of the leftmost match, <<>> when
\* there is none; toEnd adds the $ of the pattern
MatchAfter(text, lit, class, toEnd) ==
  LET Matches(p) ==
        /\ LiteralAt(text, p, lit)
        /\ GreedyRun(text, p + Len(lit), class) # <<>>
        /\ toEnd =>
             p + Len(lit) + Len(GreedyRun(text, p + Len(lit), class))
               = Len(text) + 1
      starts == {p \in 1..Len(text) : Matches(p)}
  IN IF starts = {} THEN <<>>
     ELSE LET p == CHOOSE q \in starts : \A r \in starts : q <= r
          IN GreedyRun(text, p + Len(lit), class)

\* let normalizedLink = link.trim(); https:// is put before a link that
\* does not start with http
normalizedLink(link) ==
  LET trimmed == Trim(link) IN
  IF LiteralAt(trimmed, 1, <<"h", "t", "t", "p">>) THEN trimmed
  ELSE <<"h", "t", "t", "p", "s", ":", "/", "/">> \o trimmed

\* what parseInviteLink returns: null, or the type and the capture
NoParse == [type |-> "null", value |-> <<>>]

\* the loop of parseInviteLink over the four patterns of the invite links
\* and the usernames
matchPatterns(link) ==
  LET joinchat == MatchAfter(link, <<"t", ".", "m", "e", "/", "j", "o", "i", "n", "c", "h", "a", "t", "/">>,
                             HashChars, FALSE)
      plus == MatchAfter(link, <<"t", ".", "m", "e", "/", "+">>, HashChars, FALSE)
      telegramMe == MatchAfter(link,
                      <<"t", "e", "l", "e", "g", "r", "a", "m", ".", "m", "e", "/", "j", "o", "i", "n", "c", "h", "a", "t", "/">>,
                      HashChars, FALSE)
      username == MatchAfter(link, <<"t", ".", "m", "e", "/">>, WordChars, TRUE)
      match == IF joinchat # <<>> THEN joinchat
               ELSE IF plus # <<>> THEN plus
               ELSE IF telegramMe # <<>> THEN telegramMe
               ELSE username
  IN IF match = <<>> THEN NoParse
     ELSE IF \/ StringIncludes(link, <<"j", "o", "i", "n", "c", "h", "a", "t">>)
             \/ StringIncludes(link, <<"+">>)
       THEN [type |-> "private", value |-> match]
     ELSE [type |-> "public", value |-> match]

\* parseInviteLink as the earlier revision has it, without the pattern of
\* the private channel message links (src/telegram.lib.mjs:166-187)
parseInviteLinkNoPrivateChannel(link) == matchPatterns(link)

\* parseInviteLink: /t\.me\/c\/(\d+)(?:\/\d+)?/ first, then the patterns
parseInviteLink(link) ==
  LET privateChannelMatch ==
        MatchAfter(link, <<"t", ".", "m", "e", "/", "c", "/">>, Digits, FALSE)
  IN IF privateChannelMatch # <<>>
       THEN [type |-> "private_channel", value |-> privateChannelMatch]
     ELSE matchPatterns(link)

\* the texts followLinks looks for in the message of an error
CHANNEL_INVALID ==
  <<"C", "H", "A", "N", "N", "E", "L", "_", "I", "N", "V", "A", "L", "I",
    "D">>

CHANNEL_PRIVATE ==
  <<"C", "H", "A", "N", "N", "E", "L", "_", "P", "R", "I", "V", "A", "T",
    "E">>

CHANNELS_TOO_MUCH ==
  <<"C", "H", "A", "N", "N", "E", "L", "S", "_", "T", "O", "O", "_", "M",
    "U", "C", "H">>

FLOOD_WAIT ==
  <<"F", "L", "O", "O", "D", "_", "W", "A", "I", "T">>

INVITE_REQUEST_SENT ==
  <<"I", "N", "V", "I", "T", "E", "_", "R", "E", "Q", "U", "E", "S", "T",
    "_", "S", "E", "N", "T">>

USER_ALREADY_PARTICIPANT ==
  <<"U", "S", "E", "R", "_", "A", "L", "R", "E", "A", "D", "Y", "_", "P",
    "A", "R", "T", "I", "C", "I", "P", "A", "N", "T">>

INVITE_HASH_EXPIRED ==
  <<"I", "N", "V", "I", "T", "E", "_", "H", "A", "S", "H", "_", "E", "X",
    "P", "I", "R", "E", "D">>

USERNAME_NOT_OCCUPIED ==
  <<"U", "S", "E", "R", "N", "A", "M", "E", "_", "N", "O", "T", "_", "O",
    "C", "C", "U", "P", "I", "E", "D">>

USERNAME_INVALID ==
  <<"U", "S", "E", "R", "N", "A", "M", "E", "_", "I", "N", "V", "A", "L",
    "I", "D">>

USER_BANNED_IN_CHANNEL ==
  <<"U", "S", "E", "R", "_", "B", "A", "N", "N", "E", "D", "_", "I", "N",
    "_", "C", "H", "A", "N", "N", "E", "L">>

CHAT_RESTRICTED ==
  <<"C", "H", "A", "T", "_", "R", "E", "S", "T", "R", "I", "C", "T", "E",
    "D">>

TIMEOUT ==
  <<"T", "I", "M", "E", "O", "U", "T">>

EntityNotFound ==
  <<"C", "o", "u", "l", "d", " ", "n", "o", "t", " ", "f", "i", "n", "d",
    " ", "t", "h", "e", " ", "i", "n", "p", "u", "t", " ", "e", "n", "t",
    "i", "t", "y">>

\* the reasons followLinks records with a failed link
NotAMember ==
  <<"N", "o", "t", " ", "a", " ", "m", "e", "m", "b", "e", "r", " ", "-",
    " ", "p", "r", "i", "v", "a", "t", "e", " ", "c", "h", "a", "n", "n",
    "e", "l", " ", "r", "e", "q", "u", "i", "r", "e", "s", " ", "i", "n",
    "v", "i", "t", "e", " ", "l", "i", "n", "k">>

NeedInviteLink ==
  <<"P", "r", "i", "v", "a", "t", "e", " ", "c", "h", "a", "n", "n", "e",
    "l", " ", "-", " ", "n", "e", "e", "d", " ", "i", "n", "v", "i", "t",
    "e", " ", "l", "i", "n", "k">>

ChannelNotFound ==
  <<"C", "h", "a", "n", "n", "e", "l", " ", "n", "o", "t", " ", "f", "o",
    "u", "n", "d", " ", "-", " ", "n", "e", "e", "d", " ", "i", "n", "v",
    "i", "t", "e", " ", "l", "i", "n", "k", " ", "t", "o", " ", "j", "o",
    "i", "n">>

InviteLinkExpired ==
  <<"I", "n", "v", "i", "t", "e", " ", "l", "i", "n", "k", " ", "e", "x",
    "p", "i", "r", "e", "d">>

DoesNotExist ==
  <<"C", "h", "a", "n", "n", "e", "l", "/", "g", "r", "o", "u", "p", " ",
    "d", "o", "e", "s", " ", "n", "o", "t", " ", "e", "x", "i", "s", "t">>

InvalidUsername ==
  <<"I", "n", "v", "a", "l", "i", "d", " ", "u", "s", "e", "r", "n", "a",
    "m", "e">>

InviteLinkRequired ==
  <<"P", "r", "i", "v", "a", "t", "e", " ", "c", "h", "a", "n", "n", "e",
    "l", " ", "(", "i", "n", "v", "i", "t", "e", " ", "l", "i", "n", "k",
    " ", "r", "e", "q", "u", "i", "r", "e", "d", ")">>

NotAccessible ==
  <<"C", "h", "a", "n", "n", "e", "l", " ", "n", "o", "t", " ", "a", "c",
    "c", "e", "s", "s", "i", "b", "l", "e", " ", "(", "m", "a", "y", " ",
    "n", "e", "e", "d", " ", "i", "n", "v", "i", "t", "e", " ", "l", "i",
    "n", "k", ")">>

EntityNotFoundReason ==
  <<"E", "n", "t", "i", "t", "y", " ", "n", "o", "t", " ", "f", "o", "u",
    "n", "d", " ", "(", "m", "a", "y", " ", "n", "e", "e", "d", " ", "i",
    "n", "v", "i", "t", "e", " ", "l", "i", "n", "k", ")">>

TooManyChannels ==
  <<"T", "o", "o", " ", "m", "a", "n", "y", " ", "c", "h", "a", "n", "n",
    "e", "l", "s", " ", "j", "o", "i", "n", "e", "d">>

RateLimited ==
  <<"R", "a", "t", "e", " ", "l", "i", "m", "i", "t", "e", "d">>

Banned ==
  <<"Y", "o", "u", " ", "a", "r", "e", " ", "b", "a", "n", "n", "e", "d",
    " ", "f", "r", "o", "m", " ", "t", "h", "i", "s", " ", "c", "h", "a",
    "n", "n", "e", "l">>

Restricted ==
  <<"C", "h", "a", "t", " ", "i", "s", " ", "r", "e", "s", "t", "r", "i",
    "c", "t", "e", "d">>

GroupNotFound ==
  <<"G", "r", "o", "u", "p", " ", "n", "o", "t", " ", "f", "o", "u", "n",
    "d">>

\* the message of an error of the Telegram API as the client reports it
ApiMessage(code, name) == code \o <<":", " ">> \o name

okOutcome == <<"o", "k">>

\* the links followLinks is called with: message links of a private channel,
\* bare and with scheme and spaces, a private channel link without message,
\* a username, an invite link, and a text no pattern matches
TelegramLinks ==
  {<<"t", ".", "m", "e", "/", "c", "/", "1", "2", "/", "3">>,
   <<" ", "h", "t", "t", "p", ":", "/", "/", "t", ".", "m", "e", "/", "c", "/", "7", "/", "4", "5">>,
   <<"t", ".", "m", "e", "/", "c", "/", "1", "2">>,
   <<"t", ".", "m", "e", "/", "a", "b">>,
   <<"t", ".", "m", "e", "/", "+", "h">>,
   <<"t", ".", "m", "e", "/", "c", "/", "x", "/", "1">>}

\* what getEntity of a private channel ends with: the entity, or an error
GetEntityOutcomes ==
  {okOutcome,
   ApiMessage(<<"4", "0", "0">>, CHANNEL_INVALID),
   ApiMessage(<<"4", "0", "0">>, CHANNEL_PRIVATE),
   EntityNotFound,
   ApiMessage(<<"4", "2", "0">>, FLOOD_WAIT \o <<"_", "5">>)}

\* the errors the join of a public or an invite link raises up to the catch
\* block of the loop
JoinErrors ==
  {ApiMessage(<<"4", "0", "0">>, INVITE_REQUEST_SENT),
   ApiMessage(<<"4", "0", "0">>, USER_ALREADY_PARTICIPANT),
   ApiMessage(<<"4", "0", "0">>, CHANNELS_TOO_MUCH),
   ApiMessage(<<"4", "2", "0">>, FLOOD_WAIT \o <<"_", "5">>),
   ApiMessage(<<"4", "0", "0">>, CHANNEL_INVALID)}

\* results.failed.push({ link, error })
Failed(link, error) == [link |-> link, error |-> error]

\* the current link is done: the loop goes to the next one
NextIteration(f) == [f EXCEPT !.pc = "loop", !.i = @ + 1]

\* break
Break(f) == [f EXCEPT !.pc = "returned", !.stoppedAt = f.i]

\* the catch block of the loop body for an error of the given message; the
\* earlier revision knows fewer messages
LoopCatch(f, message) ==
  LET link == f.links[f.i]
      Has(text) == StringIncludes(message, text)
      Fail(reason) ==
        NextIteration([f EXCEPT !.failed = Append(@, Failed(link, reason))])
  IN
  IF f.later /\ Has(INVITE_REQUEST_SENT)
    THEN NextIteration([f EXCEPT !.requestSent = Append(@, link)])
  ELSE IF Has(USER_ALREADY_PARTICIPANT)
    THEN NextIteration([f EXCEPT !.alreadyMember = Append(@, link)])
  ELSE IF Has(INVITE_HASH_EXPIRED) THEN Fail(InviteLinkExpired)
  ELSE IF f.later /\ Has(USERNAME_NOT_OCCUPIED) THEN Fail(DoesNotExist)
  ELSE IF f.later /\ Has(USERNAME_INVALID) THEN Fail(InvalidUsername)
  ELSE IF f.later /\ Has(CHANNEL_PRIVATE) THEN Fail(InviteLinkRequired)
  ELSE IF f.later /\ Has(CHANNEL_INVALID) THEN Fail(NotAccessible)
  ELSE IF f.later /\ Has(EntityNotFound) THEN Fail(EntityNotFoundReason)
  ELSE IF Has(CHANNELS_TOO_MUCH)
    THEN Break([f EXCEPT !.failed = Append(@, Failed(link, TooManyChannels))])
  ELSE IF Has(FLOOD_WAIT)
    THEN IF f.skipRateLimit THEN Fail(RateLimited)
         ELSE Break([f EXCEPT
                       !.failed = Append(@, Failed(link, RateLimited))])
  ELSE IF f.later /\ Has(USER_BANNED_IN_CHANNEL) THEN Fail(Banned)
  ELSE IF f.later /\ Has(CHAT_RESTRICTED) THEN Fail(Restricted)
  ELSE Fail(message)

\* the catch block of the private_channel branch: the errors that mean
\* 'not a member' are recorded, any other error is thrown on to LoopCatch
PrivateChannelCatch(f, message) ==
  LET link == f.links[f.i]
      Has(text) == StringIncludes(message, text)
      Fail(reason) ==
        NextIteration([f EXCEPT !.failed = Append(@, Failed(link, reason))])
  IN
  IF f.later
    THEN IF Has(CHANNEL_INVALID) THEN Fail(NotAMember)
         ELSE IF Has(CHANNEL_PRIVATE) THEN Fail(NeedInviteLink)
         ELSE IF Has(EntityNotFound) THEN Fail(ChannelNotFound)
         ELSE LoopCatch(f, message)
  ELSE IF Has(CHANNEL_PRIVATE) \/ Has(CHANNEL_INVALID)
    THEN Fail(NeedInviteLink)
  ELSE LoopCatch(f, message)

invalidOutcome == <<"i", "n", "v", "a", "l", "i", "d">>

\* the lists of links followLinks is called with
LinkLists == SeqsUpTo(TelegramLinks, MaxLinks)

\* what withConnection and getDialogs raise before the first link
ConnectionErrors ==
  {TIMEOUT, ApiMessage(<<"4", "0", "1">>, <<"A", "U", "T", "H", "_", "K", "E", "Y", "_", "U", "N", "R", "E", "G", "I", "S", "T", "E", "R", "E", "D">>)}

FollowInit ==
  /\ dirExists = FALSE
  /\ files = [n \in FileNames |-> NoFile]
  /\ saved = [n \in FileNames |-> NotSaved]
  /\ last = NoCall
  /\ ProcInit

\* followLinks(links, options) is called: the results are empty and
\* withConnection starts
FollowLinks ==
  /\ linkFollower.pc = "none"
  /\ \E links \in LinkLists, later \in BOOLEAN, skipRateLimit \in BOOLEAN :
       linkFollower' = [linkFollower EXCEPT
                          !.pc = "connect", !.later = later,
                          !.skipRateLimit = skipRateLimit, !.links = links]
  /\ UNCHANGED <<dirExists, files, saved, last, exitCode, writers, follower,
                 retry, sender, telegram>>

\* connect and getDialogs end: the loop starts at the first link; or they
\* raise an error, which the catch after withConnection swallows when its
\* message contains TIMEOUT and which leaves followLinks otherwise
Connected ==
  /\ linkFollower.pc = "connect"
  /\ \/ linkFollower' = [linkFollower EXCEPT !.pc = "loop", !.i = 1]
     \/ \E message \in ConnectionErrors :
          linkFollower' =
            IF StringIncludes(message, TIMEOUT)
              THEN [linkFollower EXCEPT !.pc = "returned"]
            ELSE [linkFollower EXCEPT !.pc = "thrown", !.thrown = message]
  /\ UNCHANGED <<dirExists, files, saved, last, exitCode, writers, follower,
                 retry, sender, telegram>>

\* the head of the loop and the start of its body: i < links.length,
\* parseInviteLink(normalizedLink), and the branch on its result
ProcessLink ==
  /\ linkFollower.pc = "loop"
  /\ linkFollower' =
       IF linkFollower.i > Len(linkFollower.links)
         THEN [linkFollower EXCEPT !.pc = "returned"]
       ELSE LET link == linkFollower.links[linkFollower.i]
                parsed == parseInviteLink(normalizedLink(link))
                f == [linkFollower EXCEPT !.parsed = Append(@, parsed)]
            IN IF parsed = NoParse
                 THEN NextIteration([f EXCEPT
                                       !.invalid = Append(@, link),
                                       !.outcomes = Append(@, invalidOutcome)])
               ELSE IF parsed.type = "private_channel"
                 THEN [f EXCEPT !.pc = "access"]
               ELSE [f EXCEPT !.pc = "join"]
  /\ UNCHANGED <<dirExists, files, saved, last, exitCode, writers, follower,
                 retry, sender, telegram>>

\* getEntity of the private channel ends: the channel is one the user is a
\* member of, or the error goes to the catch block of the branch
GetEntity ==
  /\ linkFollower.pc = "access"
  /\ \E outcome \in GetEntityOutcomes :
       LET f == [linkFollower EXCEPT !.outcomes = Append(@, outcome)] IN
       linkFollower' =
         IF outcome = okOutcome
           THEN NextIteration([f EXCEPT
                                 !.alreadyMember = Append(@, f.links[f.i])])
         ELSE PrivateChannelCatch(f, outcome)
  /\ UNCHANGED <<dirExists, files, saved, last, exitCode, writers, follower,
                 retry, sender, telegram>>

\* the branches of the usernames and the invite links end: the link is
\* joined, or was joined before, or is recorded as failed where the branch
\* finds no group, or an error goes to the catch block of the loop
JoinChannel ==
  /\ linkFollower.pc = "join"
  /\ LET link == linkFollower.links[linkFollower.i]
         Done(f) == NextIteration([f EXCEPT !.outcomes = Append(@, okOutcome)])
     IN
     \/ linkFollower' = Done([linkFollower EXCEPT !.joined = Append(@, link)])
     \/ linkFollower' =
          Done([linkFollower EXCEPT !.alreadyMember = Append(@, link)])
     \/ linkFollower' =
          Done([linkFollower EXCEPT
                  !.failed = Append(@, Failed(link, GroupNotFound))])
     \/ \E message \in JoinErrors :
          linkFollower' =
            LoopCatch([linkFollower EXCEPT !.outcomes = Append(@, message)],
                      message)
  /\ UNCHANGED <<dirExists, files, saved, last, exitCode, writers, follower,
                 retry, sender, telegram>>

FollowNext ==
  \/ FollowLinks
  \/ Connected
  \/ ProcessLink
  \/ GetEntity
  \/ JoinChannel

FollowSpec == FollowInit /\ [][FollowNext]_vars

\* the link without the scheme a user may write before it
WithoutScheme(link) ==
  LET t == Trim(link) IN
  IF LiteralAt(t, 1, <<"h", "t", "t", "p", "s", ":", "/", "/">>) THEN SubSeq(t, 9, Len(t))
  ELSE IF LiteralAt(t, 1, <<"h", "t", "t", "p", ":", "/", "/">>) THEN SubSeq(t, 8, Len(t))
  ELSE t

\* the digits of the channel in a link t.me/c/<channelId>/<messageId>, and
\* <<>> for a link of another form
ChannelIdOf(link) ==
  LET t == WithoutScheme(link)
      channel == GreedyRun(t, 8, Digits)
      message == GreedyRun(t, 9 + Len(channel), Digits)
  IN IF /\ LiteralAt(t, 1, <<"t", ".", "m", "e", "/", "c", "/">>)
        /\ channel # <<>>
        /\ LiteralAt(t, 8 + Len(channel), <<"/">>)
        /\ message # <<>>
        /\ 9 + Len(channel) + Len(message) = Len(t) + 1
       THEN channel
     ELSE <<>>

\* link j of the call is a private channel message link whose access failed
\* with CHANNEL_INVALID
InvalidChannelAt(j) ==
  /\ j <= Len(linkFollower.outcomes)
  /\ ChannelIdOf(linkFollower.links[j]) # <<>>
  /\ StringIncludes(linkFollower.outcomes[j], CHANNEL_INVALID)

MaxChats == 2

error_codeKey == <<"e", "r", "r", "o", "r", "_", "c", "o", "d", "e">>

\* the codes of the errors of the VK API the model raises
ApiErrorCodes == {962, 924, 15, 7, 1256, 1257, 999, 0}

\* what messages.getHistory and messages.delete reject with, and the
\* TypeError of the body: an error of the client with its code, an error
\* object of the API with error_code, an error without code, an error whose
\* code is a string
CleanupErrors ==
  {JObj(<<codeKey, messageKey>>, <<JNum(c, 0), JStr(<<"x">>)>>) :
     c \in ApiErrorCodes}
  \cup {JObj(<<error_codeKey, messageKey>>, <<JNum(c, 0), JStr(<<"x">>)>>) :
          c \in {962, 7, 999}}
  \cup {JObj(<<messageKey>>, <<JStr(<<"x">>)>>),
        JObj(<<codeKey>>, <<JStr(<<"9", "6", "2">>)>>)}

\* what the body of the deletion loop ends with for one chat: incoming
\* messages deleted, no incoming message in the history, or an error
CleanupOutcomes ==
  {[kind |-> "cleaned", error |-> JUndefined],
   [kind |-> "nothing", error |-> JUndefined]}
  \cup {[kind |-> "error", error |-> e] : e \in CleanupErrors}

\* the messages sent, in the order of the Map: entry j is the message to
\* chat j, TRUE when the monitoring found it deleted
SentMessages == SeqsUpTo(BOOLEAN, MaxChats)

\* the chats of the entries of sentMessages with the given info.deleted
ChatsWith(sentMessages, flag) ==
  SelectSeq([j \in 1..Len(sentMessages) |-> j],
            LAMBDA j : sentMessages[j] = flag)

\* const errorCode = error.code || error.error_code
errorCode(error) ==
  IF Falsy(GetProperty(error, codeKey))
    THEN GetProperty(error, error_codeKey)
  ELSE GetProperty(error, codeKey)

\* { ...msg, errorCode, errorType }
RestrictedChat(msg, code, errorType) ==
  [chatId |-> msg, errorCode |-> code, errorType |-> errorType]

\* the loop of the surviving chats goes to its next chat, or ends
NextChat(s) ==
  IF s.i + 1 > Len(s.survived)
    THEN [s EXCEPT !.i = @ + 1, !.pc = "results"]
  ELSE [s EXCEPT !.i = @ + 1]

\* a catch block that hands an error it does not know to the caller
CleanupCatchRethrowing(s, error) ==
  LET msg == s.survived[s.i]
      code == errorCode(error)
  IN
  IF code = JNum(962, 0)
    THEN NextChat([s EXCEPT !.vipRestrictedChats =
           Append(@, RestrictedChat(msg, code, "VIP subscription required"))])
  ELSE [s EXCEPT !.pc = "thrown", !.thrown = TRUE]

\* the catch block of the body of the deletion loop
CleanupCatch(s, error) ==
  LET msg == s.survived[s.i]
      code == errorCode(error)
  IN
  IF code = JNum(962, 0)
    THEN NextChat([s EXCEPT !.vipRestrictedChats =
           Append(@, RestrictedChat(msg, code, "VIP subscription required"))])
  ELSE IF code = JNum(924, 0)
    THEN NextChat([s EXCEPT !.permissionDeniedChats =
           Append(@, RestrictedChat(msg, code, "Cannot delete for everyone"))])
  ELSE IF code = JNum(15, 0) \/ code = JNum(7, 0)
    THEN NextChat([s EXCEPT !.permissionDeniedChats =
           Append(@, RestrictedChat(msg, code, "Access denied"))])
  ELSE IF code = JNum(1256, 0) \/ code = JNum(1257, 0)
    THEN NextChat([s EXCEPT !.vipRestrictedChats =
           Append(@, RestrictedChat(msg, code, "Subscription issue"))])
  ELSE NextChat([s EXCEPT !.plainErrors = Append(@, msg)])

SendInit ==
  /\ dirExists = FALSE
  /\ files = [n \in FileNames |-> NoFile]
  /\ saved = [n \in FileNames |-> NotSaved]
  /\ last = NoCall
  /\ ProcInit

\* FINAL RESULTS: survived and deleted are read off sentMessages, the
\* number of survived messages is printed, and the deletion loop starts
\* when a message survived and the option asks for it
FinalResults ==
  /\ sender.pc = "none"
  /\ \E sentMessages \in SentMessages, deleteAllIncoming \in BOOLEAN :
       LET survived == ChatsWith(sentMessages, FALSE)
           deleted == ChatsWith(sentMessages, TRUE)
       IN sender' = [sender EXCEPT
            !.pc = IF Len(survived) > 0 /\ deleteAllIncoming
                     THEN "cleanup" ELSE "results",
            !.i = 1,
            !.deleteAllIncoming = deleteAllIncoming,
            !.sentMessages = sentMessages,
            !.survived = survived,
            !.deleted = deleted,
            !.reportedSurvived = Len(survived)]
  /\ UNCHANGED <<dirExists, files, saved, last, exitCode, writers, follower,
                 retry, linkFollower, telegram>>

\* the body of the deletion loop for one surviving chat: getHistory, the
\* incoming messages, messages.delete, and the catch block
CleanChat ==
  /\ sender.pc = "cleanup"
  /\ \E outcome \in CleanupOutcomes :
       LET s == [sender EXCEPT !.outcomes = Append(@, outcome)] IN
       sender' =
         IF outcome.kind = "cleaned"
           THEN NextChat([s EXCEPT !.successfullyCleanedChats =
                                     Append(@, s.survived[s.i])])
         ELSE IF outcome.kind = "nothing" THEN NextChat(s)
         ELSE CleanupCatch(s, outcome.error)
  /\ UNCHANGED <<dirExists, files, saved, last, exitCode, writers, follower,
                 retry, linkFollower, telegram>>

\* the number of deleted messages is printed and the process exits: 0 when
\* no message was deleted, 1 otherwise
SendExit ==
  /\ sender.pc = "results"
  /\ sender' = [sender EXCEPT
                  !.pc = "exited",
                  !.reportedDeleted = Len(sender.deleted),
                  !.status = IF Len(sender.deleted) = 0
                               THEN Exited(0) ELSE Exited(1)]
  /\ UNCHANGED <<dirExists, files, saved, last, exitCode, writers, follower,
                 retry, linkFollower, telegram>>

SendNext ==
  \/ FinalResults
  \/ CleanChat
  \/ SendExit

SendSpec == SendInit /\ [][SendNext]_vars

\* the number an error carries as its code, in code or in error_code; 0 for
\* an error that carries none
CodeNumber(error) ==
  LET c == GetProperty(error, codeKey)
      e == GetProperty(error, error_codeKey)
  IN IF c.k = "num" THEN c.n[1]
     ELSE IF e.k = "num" THEN e.n[1]
     ELSE 0

VipCodes == {962, 1256, 1257}

PermissionCodes == {924, 15, 7}

\* the chat is in the list of chats with their error codes
Listed(list, chat) == \E k \in 1..Len(list) : list[k].chatId = chat

\* the number of entries of sentMessages with the given info.deleted
CountOf(flag) ==
  Cardinality({j \in 1..Len(sender.sentMessages) :
                 sender.sentMessages[j] = flag})

\* C23: cleanup error isolation.  An error raised while the incoming
\* messages of a surviving chat are deleted is caught and put in the
\* category of its code: 962, 1256 and 1257 in vipRestrictedChats, 924, 15
\* and 7 in permissionDeniedChats, any other code among the plain errors,
\* and in no other category; nothing is thrown; once the loop is over every
\* surviving chat has been processed; survived and deleted do not change
\* while the chats are cleaned; and the counts printed and the exit status
\* are those of the messages sent, 0 exactly when none was deleted,
\* whatever the errors were.
C23_CleanupErrorIsolation ==
  /\ [](\A j \in 1..Len(sender.outcomes) :
          sender.outcomes[j].kind = "error"
            => LET chat == sender.survived[j]
                   code == CodeNumber(sender.outcomes[j].error)
                   vip == Listed(sender.vipRestrictedChats, chat)
                   denied == Listed(sender.permissionDeniedChats, chat)
                   plain == \E k \in 1..Len(sender.plainErrors) :
                              sender.plainErrors[k] = chat
                   cleaned == \E k \in 1..Len(sender.successfullyCleanedChats) :
                                sender.successfullyCleanedChats[k] = chat
               IN /\ vip <=> code \in VipCodes
                  /\ denied <=> code \in PermissionCodes
                  /\ plain <=> code \notin VipCodes \cup PermissionCodes
                  /\ ~cleaned)
  /\ [](~sender.thrown /\ sender.pc # "thrown")
  /\ []((sender.pc \in {"results", "exited"}
          /\ sender.deleteAllIncoming /\ Len(sender.survived) > 0)
         => Len(sender.outcomes) = Len(sender.survived))
  /\ [][sender.pc = "cleanup"
          => /\ sender'.survived = sender.survived
             /\ sender'.deleted = sender.deleted
             /\ sender'.reportedSurvived = sender.reportedSurvived
             /\ sender'.status = NotExited]_vars
  /\ [](sender.pc = "exited"
         => /\ sender.reportedSurvived = CountOf(FALSE)
            /\ sender.reportedDeleted = CountOf(TRUE)
            /\ sender.status = IF CountOf(TRUE) = 0
                                 THEN Exited(0) ELSE Exited(1))

\* the process has exited with status 0 after a cleanup of two surviving
\* chats: the first raised error 962 and is in vipRestrictedChats, the second
\* was cleaned after it
C23_Witness ==
  /\ sender.pc = "exited"
  /\ sender.status = Exited(0)
  /\ sender.survived = <<1, 2>>
  /\ Len(sender.outcomes) = 2
  /\ sender.outcomes[1].kind = "error"
  /\ CodeNumber(sender.outcomes[1].error) = 962
  /\ Listed(sender.vipRestrictedChats, 1)
  /\ sender.successfullyCleanedChats = <<2>>

(***************************************************************************)
(* TelegramUserClient: the session of the client and the .env file.  A     *)
(* process loads .env and constructs one client; connect is called on it   *)
(* one call after the other.                                               *)
(***************************************************************************)
MaxProcesses == 2
MaxConnects == 3

\* the text client.session.save() returns after the n-th login: the
\* serialised authorisation key of a started client, never empty
SavedSession(n) == [k \in 1..n |-> "s"]

\* the .env file before the first process: absent, present with an empty
\* TELEGRAM_USER_SESSION, or holding the session of an earlier login
EnvFiles ==
  {[exists |-> FALSE, session |-> <<>>],
   [exists |-> TRUE, session |-> <<>>],
   [exists |-> TRUE, session |-> <<"e">>]}

\* options.session of the constructor: not given, or a session
SessionOptions == {<<>>, <<"o">>}

\* how the writes of saveSession end: both succeed, writeFileSync of the
\* missing .env throws, dotenvx.set throws
SaveOutcomes == {"saved", "createFails", "setFails"}

\* saveSession that writes .env and leaves this.session as it was
saveSessionKeepingSession(t, outcome) ==
  LET session == SavedSession(t.saveCalls + 1)
      u == [t EXCEPT !.saveCalls = @ + 1]
  IN
  IF ~t.envExists /\ outcome = "createFails" THEN u
  ELSE IF outcome = "setFails" THEN [u EXCEPT !.envExists = TRUE]
  ELSE [u EXCEPT !.envExists = TRUE, !.envSession = session,
                 !.envWrites = @ + 1, !.clientWrites = @ + 1]

\* saveSession: this.session = session, then the .env file is created when
\* missing and TELEGRAM_USER_SESSION is set in it; an error of the writes is
\* logged and goes no further
saveSession(t, outcome) ==
  LET session == SavedSession(t.saveCalls + 1)
      u == [t EXCEPT !.saveCalls = @ + 1, !.session = session]
  IN
  IF ~t.envExists /\ outcome = "createFails" THEN u
  ELSE IF outcome = "setFails" THEN [u EXCEPT !.envExists = TRUE]
  ELSE [u EXCEPT !.envExists = TRUE, !.envSession = session,
                 !.envWrites = @ + 1, !.clientWrites = @ + 1]

\* one call of connect in the history of the model
ConnectCall(entry, returned, saveCalled, wrote) ==
  [entry |-> entry, returned |-> returned, saved |-> saveCalled,
   wrote |-> wrote]

TelegramInit ==
  /\ dirExists = FALSE
  /\ files = [n \in FileNames |-> NoFile]
  /\ saved = [n \in FileNames |-> NotSaved]
  /\ last = NoCall
  /\ ProcInit

\* a process starts: dotenvx.config() loads .env and the script constructs
\* its client, whose session is options.session or TELEGRAM_USER_SESSION
NewClient ==
  /\ telegram.pc \in {"none", "idle"}
  /\ telegram.processes < MaxProcesses
  /\ \E env \in EnvFiles, option \in SessionOptions,
        credentials \in BOOLEAN, later \in BOOLEAN :
       LET t == IF telegram.processes = 0
                  THEN [telegram EXCEPT !.envExists = env.exists,
                                        !.envSession = env.session]
                ELSE telegram
       IN
       /\ telegram.processes > 0 => env = [exists |-> FALSE, session |-> <<>>]
       /\ telegram' = [t EXCEPT
            !.pc = "idle",
            !.later = later,
            !.credentials = credentials,
            !.session = IF option # <<>> THEN option ELSE t.envSession,
            !.clientWrites = 0,
            !.processes = @ + 1]
  /\ UNCHANGED <<dirExists, files, saved, last, exitCode, writers, follower,
                 retry, linkFollower, sender>>

\* connect up to await client.start(): the API credentials are read, asked
\* for where the revision asks, and required; isNewSession = !this.session
Connect ==
  /\ telegram.pc = "idle"
  /\ telegram.connects < MaxConnects
  /\ \E answered \in BOOLEAN :
       LET asks == ~telegram.later \/ telegram.session = <<>>
           hasCredentials ==
             telegram.credentials \/ (asks /\ answered)
           t == [telegram EXCEPT !.connects = @ + 1,
                                 !.sessionAtEntry = telegram.session]
       IN
       /\ (~asks \/ telegram.credentials) => answered
       /\ telegram' =
            IF hasCredentials
              THEN [t EXCEPT !.pc = "starting",
                             !.isNewSession = (telegram.session = <<>>)]
            ELSE [t EXCEPT !.history =
                    Append(@, ConnectCall(telegram.session, FALSE, FALSE,
                                          FALSE))]
  /\ UNCHANGED <<dirExists, files, saved, last, exitCode, writers, follower,
                 retry, linkFollower, sender>>

\* client.start() resolves: the session is saved when it is a new one, and
\* connect returns the client
Started ==
  /\ telegram.pc = "starting"
  /\ \E outcome \in SaveOutcomes :
       LET t == IF telegram.isNewSession
                  THEN saveSession(telegram, outcome)
                ELSE telegram
       IN
       /\ (~telegram.isNewSession) => outcome = "saved"
       /\ (telegram.envExists /\ telegram.isNewSession)
            => outcome # "createFails"
       /\ telegram' = [t EXCEPT
            !.pc = "idle",
            !.history =
              Append(@, ConnectCall(telegram.sessionAtEntry, TRUE,
                                    t.saveCalls > telegram.saveCalls,
                                    t.envWrites > telegram.envWrites))]
  /\ UNCHANGED <<dirExists, files, saved, last, exitCode, writers, follower,
                 retry, linkFollower, sender>>

\* client.start() rejects: connect throws before saveSession
StartFailed ==
  /\ telegram.pc = "starting"
  /\ telegram' = [telegram EXCEPT
       !.pc = "idle",
       !.history = Append(@, ConnectCall(telegram.sessionAtEntry, FALSE,
                                         FALSE, FALSE))]
  /\ UNCHANGED <<dirExists, files, saved, last, exitCode, writers, follower,
                 retry, linkFollower, sender>>

TelegramNext ==
  \/ NewClient
  \/ Connect
  \/ Started
  \/ StartFailed

TelegramSpec == TelegramInit /\ [][TelegramNext]_vars

\* C24: Telegram session persistence.  A call of connect that returns
\* saves the session exactly when the client had no session when the call
\* began; only such a call writes TELEGRAM_USER_SESSION, and it writes the
\* session the client then holds; after the save the session of the client
\* is not empty; a call of connect on a client that has a session leaves
\* the session and the .env file as they are, so that no client writes the
\* .env file twice.
C24_SessionPersistence ==
  /\ [](\A k \in 1..Len(telegram.history) :
          LET call == telegram.history[k] IN
          /\ call.returned => (call.saved <=> call.entry = <<>>)
          /\ call.wrote => call.returned /\ call.saved
          /\ ~call.returned => ~call.saved)
  /\ [][telegram'.saveCalls # telegram.saveCalls
          => /\ telegram'.session # <<>>
             /\ telegram'.envWrites # telegram.envWrites
                  => telegram'.envSession = telegram'.session]_vars
  /\ [][(telegram.pc = "starting" /\ telegram.sessionAtEntry # <<>>)
          => /\ telegram'.session = telegram.session
             /\ telegram'.envSession = telegram.envSession
             /\ telegram'.envExists = telegram.envExists
             /\ telegram'.envWrites = telegram.envWrites]_vars
  /\ [][telegram'.envWrites # telegram.envWrites
          => telegram.pc = "starting" /\ telegram.sessionAtEntry = <<>>]_vars
  /\ [](telegram.clientWrites <= 1)
  /\ [](telegram.pc = "starting"
         => telegram.sessionAtEntry = telegram.session)

\* a client without session has connected and saved its session to .env,
\* and its next call of connect has returned without a save
C24_Witness ==
  /\ Len(telegram.history) = 2
  /\ telegram.processes = 1
  /\ telegram.history[1] = ConnectCall(<<>>, TRUE, TRUE, TRUE)
  /\ telegram.history[2] = ConnectCall(SavedSession(1), TRUE, FALSE, FALSE)
  /\ telegram.envSession = SavedSession(1)
  /\ telegram.envWrites = 1

====
